---- MODULE Spec2Model ----
(***************************************************************************)
(* Raid / campaign lifecycle and reward settlement of the Telegram raid    *)
(* bot: the store (raids, campaigns, user_actions, xp_transactions, users) *)
(* and the asynchronous operations that read and write it.  Every await of *)
(* the JavaScript source is one atomic step of a task; the synchronous     *)
(* code between two awaits belongs to the step of the await before it.     *)
(*                                                                         *)
(* JavaScript null / undefined / 0 of a numeric field are all written 0:   *)
(* the source only ever tests such fields for truthiness (x || default).   *)
(*                                                                         *)
(* Specifications: Spec (the lifecycle of a raid), CampaignSpec (a         *)
(* campaign and its raid), LedgerSpec (credits to the XP ledger, the       *)
(* wallet connection and the reads of the ledger), FaultSpec (LedgerSpec   *)
(* plus the steps in which the store answers a request of a credit with    *)
(* an error), RewardSpec (one termination over a drawn ledger), SweepSpec  *)
(* (the hourly sweep of expired campaigns next to manual terminations),    *)
(* SweepLiveSpec (the sweeps alone, with fair scheduling), RaidTimerSpec   *)
(* (creation, actions and the timer of a raid, with fair scheduling),      *)
(* CreateSpec (creations from complete and incomplete configs),            *)
(* ActionSpec (overlapping actions of one user on one raid),               *)
(* ReadFaultSpec (reads of the ledger that the store answers with the rows *)
(* or with an error), ClaimSpec (the reward of one user asked for over a   *)
(* drawn ledger), VerifySpec (overlapping presses of the verify button),   *)
(* ConfigSpec (/dropraid and the configuration buttons, pressed by any     *)
(* user of a chat) and AuthSpec (the /login links, their state values and  *)
(* the OAuth callbacks, while time passes).  In all but FaultSpec the      *)
(* store answers every request of a credit.                                *)
(* Token amounts are exact fractions num / den.                            *)
(***************************************************************************)
EXTENDS Integers, Sequences, FiniteSets, TLC

(* ------------------------------ bounds -------------------------------- *)

\* How many operations (service calls) may be started.
MaxOps == 3
\* How many raids may be created.
MaxRaids == 1
\* How many campaigns may be created.
MaxCampaigns == 1
\* How many operations may be started in the campaign specification.
MaxCampaignOps == 5
\* How many operations may be started in the ledger specifications.
MaxLedgerOps == 3
\* How many terminations may be started in the reward specification.
MaxRewardOps == 1
\* How many manual terminations may be started in the sweep specifications,
\* and the last value of the clock there.
MaxSweepOps == 1
MaxClock == 3
\* How many calls may be started in the raid timer specification.
MaxTimerOps == 2
\* How many calls may be started in the creation specification.
MaxCreateOps == 3
\* How many calls may be started in the action specification.
MaxActionOps == 3
\* How many calls may be started in the read fault specification.
MaxReadOps == 2
\* How many verifications may be started in the verification specification.
MaxVerifyOps == 2
\* How many commands and callbacks may be started in the configuration
\* specification.
MaxConfigOps == 3
\* How many /login links and OAuth callbacks may be started in the login
\* specification, and how many state values may be issued there.
MaxAuthOps == 4
MaxStates == 2

(* ------------------------- program constants -------------------------- *)

XpLike == 10
XpRetweet == 10
XpComment == 15
XpCommentWithImage == 20
XpCommentWithGif == 25
XpBookmark == 5
DefaultDuration == 3600
\* 3600000 ms, the age beyond which generateTwitterAuthUrl deletes a state,
\* in steps of the clock
OAuthStateLifetime == 1
SUI_TYPE == "0x2::sui::SUI"
DefaultThreshold == 1000

\* RaidStatus / CampaignStatus
PENDING == "pending"
ACTIVE == "active"
COMPLETED == "completed"
FAILED == "failed"
CANCELLED == "cancelled"

(* ------------------------------ inputs -------------------------------- *)

\* Concurrent tasks of the single Node.js process.
Procs == {"p1", "p2"}
\* A call takes the first task when both are free.
FirstProc == "p1"

\* Telegram ids of the users of the store, with their stored profile:
\* users 1 and 2 connected a Twitter account (which verifies them) and a
\* wallet, user 3 connected neither.
UserProfiles ==
  << [is_verified |-> TRUE,  sui_wallet_connected |-> TRUE,  sui_wallet_address |-> 1],
     [is_verified |-> TRUE,  sui_wallet_connected |-> TRUE,  sui_wallet_address |-> 2],
     [is_verified |-> FALSE, sui_wallet_connected |-> FALSE, sui_wallet_address |-> 0] >>

Users == DOMAIN UserProfiles

\* What a caller may pass as (actionType, actionData.hasMedia, actionData.isGif).
ActionInputs ==
  { [type |-> "like",    hasMedia |-> FALSE, isGif |-> FALSE],
    [type |-> "comment", hasMedia |-> FALSE, isGif |-> FALSE],
    [type |-> "share",   hasMedia |-> FALSE, isGif |-> FALSE] }

\* What an admin may pass to createRaid (the fields the lifecycle reads):
\* a pool raid, a fixed-rate raid with a likes target and a threshold, a raid
\* of campaign 1 with both reward fields, a raid without reward, a raid with
\* no target at all, a pool without a token, a rate without a token.
BaseConfig ==
  [ targetLikes |-> 0, targetComments |-> 1, totalReward |-> 0, tokenPerXp |-> 0,
    tokenType |-> 0, thresholdXp |-> 0, campaignId |-> 0, requireVerification |-> TRUE,
    tweetUrl |-> TRUE, adminId |-> TRUE, chatId |-> TRUE ]

RaidConfigs ==
  { [BaseConfig EXCEPT !.totalReward = 100, !.tokenType = 1],
    [BaseConfig EXCEPT !.targetLikes = 1, !.tokenPerXp = 2, !.tokenType = 1,
                       !.thresholdXp = 15, !.requireVerification = FALSE],
    [BaseConfig EXCEPT !.totalReward = 100, !.tokenPerXp = 2, !.tokenType = 1,
                       !.campaignId = 1],
    BaseConfig,
    [BaseConfig EXCEPT !.targetComments = 0],
    [BaseConfig EXCEPT !.totalReward = 100] }

\* The raids of the campaign specification: a pool raid of its own and a raid
\* created for campaign 1.
CampaignRaidConfigs ==
  { [BaseConfig EXCEPT !.totalReward = 100, !.tokenType = 1],
    [BaseConfig EXCEPT !.totalReward = 100, !.tokenPerXp = 2, !.tokenType = 1,
                       !.campaignId = 1] }

\* The end date of the campaigns whose expiry is not looked at: far ahead.
CampaignEndDate == 100

\* What an admin may pass to createCampaign: a budget shared above 10 XP, a
\* fixed rate with the default threshold, a budget without a token.
CampaignConfigs ==
  { [ totalBudget |-> 100, tokenPerXp |-> 0, tokenType |-> 1, thresholdXp |-> 10,
      endDate |-> CampaignEndDate ],
    [ totalBudget |-> 0,   tokenPerXp |-> 2, tokenType |-> 1, thresholdXp |-> 0,
      endDate |-> CampaignEndDate ],
    [ totalBudget |-> 100, tokenPerXp |-> 0, tokenType |-> 0, thresholdXp |-> 10,
      endDate |-> CampaignEndDate ] }

\* The users and actions of the campaign specification.
CampaignUsers == {1, 2}
CampaignActionInputs == { [type |-> "comment", hasMedia |-> FALSE, isGif |-> FALSE] }

\* The ledger specifications: the users credited and read, the amount of a
\* credit, the sources of credits and reads, the action recorded, the user
\* who generates a wallet.
LedgerUsers == {1, 3}
XpAmounts == {50}
XpSources ==
  { [type |-> "raid", id |-> 1], [type |-> "raid", id |-> 2],
    [type |-> "campaign", id |-> 1], [type |-> "campaign", id |-> 2] }
LedgerActionInputs == { [type |-> "like", hasMedia |-> FALSE, isGif |-> FALSE] }
WalletUsers == {3}
ReadUsers == {1}

\* The reward specification.  Users 1 to 3 have a wallet, user 4 has none.
RewardUserProfiles ==
  << [is_verified |-> TRUE, sui_wallet_connected |-> TRUE,  sui_wallet_address |-> 1],
     [is_verified |-> TRUE, sui_wallet_connected |-> TRUE,  sui_wallet_address |-> 2],
     [is_verified |-> TRUE, sui_wallet_connected |-> TRUE,  sui_wallet_address |-> 3],
     [is_verified |-> TRUE, sui_wallet_connected |-> FALSE, sui_wallet_address |-> 0] >>

\* The amounts of the ledger entries users 1 to 3 hold for raid 1, in ledger
\* order, and of the entries user 1 holds for campaign 1.
RaidXpChoices ==
  << { << >>, << 0 >>, << 50 >>, << 100 >> },
     { << >>, << 150 >>, << 150, 150 >> },
     { << >>, << 600 >> } >>
CampaignXpChoices == { << >>, << 150 >> }

\* The reward settings of the raid and of the campaign that are terminated
RewardRaidConfigs ==
  { [BaseConfig EXCEPT !.totalReward = reward[1], !.tokenPerXp = reward[2],
                       !.tokenType = 1, !.thresholdXp = threshold, !.campaignId = c] :
      reward \in { <<1000, 0>>, <<0, 2>>, <<1000, 2>> }, threshold \in {0, 100},
      c \in {0, 1} }
RewardCampaignConfigs ==
  { [ totalBudget |-> 1000, tokenPerXp |-> 0, tokenType |-> 1, thresholdXp |-> 100,
      endDate |-> CampaignEndDate ],
    [ totalBudget |-> 0,    tokenPerXp |-> 2, tokenType |-> 1, thresholdXp |-> 100,
      endDate |-> CampaignEndDate ],
    [ totalBudget |-> 1000, tokenPerXp |-> 2, tokenType |-> 1, thresholdXp |-> 100,
      endDate |-> CampaignEndDate ] }

\* The action specification: the user who acts, and a like, a retweet and the
\* three tiers of a comment.
RaidActionUsers == {1}
\* The users who press the verify button: one with Twitter linked, one without
VerifyUsers == {1, 3}
RaidActionInputs ==
  { [type |-> "like",    hasMedia |-> FALSE, isGif |-> FALSE],
    [type |-> "retweet", hasMedia |-> FALSE, isGif |-> FALSE],
    [type |-> "comment", hasMedia |-> FALSE, isGif |-> FALSE],
    [type |-> "comment", hasMedia |-> TRUE,  isGif |-> FALSE],
    [type |-> "comment", hasMedia |-> TRUE,  isGif |-> TRUE] }

\* The configuration specification: the chats, the users who send commands
\* and press buttons there, those of them Telegram reports as administrators,
\* and the texts of a /dropraid message (without a URL, with a URL that is
\* not a tweet, with a tweet URL).
Chats == {1, 2}
ChatUsers == {1, 2, 3}
ChatAdmins == {1, 2}
DropRaidTexts == {"none", "invalid", "tweet"}
RaidModes == {"single", "campaign"}
TokenTypes == {"sui", "custom"}
RewardModels == {"fixed", "pool"}

\* The login specification: the state values crypto.randomBytes draws, in
\* the order it draws them, and the Twitter accounts a login may end in.
StateValues == 1..MaxStates
TwitterAccounts == {7, 8}

\* What verifyUserActions passes to recordUserAction for a like and a retweet,
\* and the first replies Twitter may answer with (NoInput: none).
LikeInput == [type |-> "like", hasMedia |-> FALSE, isGif |-> FALSE]
RetweetInput == [type |-> "retweet", hasMedia |-> FALSE, isGif |-> FALSE]
VerifiedReplies ==
  { [type |-> "none", hasMedia |-> FALSE, isGif |-> FALSE],
    [type |-> "comment", hasMedia |-> FALSE, isGif |-> FALSE] }

\* The creation specification: a complete raid config, and configs without
\* the tweet URL, without the admin, without the chat, and without all three.
CreateRaidConfigs ==
  { [BaseConfig EXCEPT !.tweetUrl = f[1], !.adminId = f[2], !.chatId = f[3]] :
      f \in { <<TRUE, TRUE, TRUE>>, <<FALSE, TRUE, TRUE>>, <<TRUE, FALSE, TRUE>>,
              <<TRUE, TRUE, FALSE>>, <<FALSE, FALSE, FALSE>> } }

\* Campaign configs whose end date is missing (0), not after the start, or
\* ahead, and whose threshold is negative, missing (0) or positive.
CreateCampaignConfigs ==
  { [ totalBudget |-> 100, tokenPerXp |-> 0, tokenType |-> 1, thresholdXp |-> t,
      endDate |-> e ] : t \in {0 - 5, 0, 10}, e \in {0, 1, CampaignEndDate} }

(* ------------------------------- state -------------------------------- *)

VARIABLES
  raids,            \* table raids: sequence of rows, the index is the SERIAL id
  campaigns,        \* table campaigns: sequence of rows
  user_actions,     \* table user_actions: sequence of rows in insertion order
  xp_transactions,  \* table xp_transactions (the XP ledger), insertion order
  users,            \* table users: telegram id -> row
  timers,           \* raid ids with a pending setTimeout of scheduleRaidEnd
  sent,             \* successful sendTokens calls, in order
  batches,          \* suiService.distributeRewards invocations, in order
  clock,            \* the value the next new Date() returns
  tempRaidConfig,   \* global.tempRaidConfig: chat id -> pending raid configuration
  oauthStates,      \* oauthStates: state value -> { telegramId, timestamp }
  twitter_accounts, \* table twitter_accounts: twitter id -> telegram id
  ops,              \* operations that may still be started
  pc,               \* task -> the await it is suspended at
  loc,              \* task -> its local variables
  res               \* task -> the result its last operation returned

vars == << raids, campaigns, user_actions, xp_transactions, users, timers,
           sent, batches, clock, tempRaidConfig, oauthStates, twitter_accounts,
           ops, pc, loc, res >>

store == << raids, campaigns, user_actions, xp_transactions, users >>

\* The two in-memory maps of the bot process and the table behind /login
front == << tempRaidConfig, oauthStates, twitter_accounts >>

(* ------------------------- store queries ------------------------------ *)

\* Indices of the user_actions rows matching .eq('user_id').eq('raid_id').eq('action_type')
ActionRows(u, r, t) ==
  { i \in DOMAIN user_actions :
      /\ user_actions[i].user_id = u
      /\ user_actions[i].raid_id = r
      /\ user_actions[i].action_type = t }

\* PostgREST .single(): data is the row iff exactly one row matches; zero or
\* several rows give error PGRST116 and data null.
SingleHasData(rowset) == Cardinality(rowset) = 1

\* select action_type, count ... group by action_type, read for one type.
\* The grouped queries (.group(...)) and the rpc('run_query') call are taken
\* to return what their SQL text asks for; the store client is not in src/.
CountActions(r, t) ==
  Cardinality({ i \in DOMAIN user_actions :
                  user_actions[i].raid_id = r /\ user_actions[i].action_type = t })

\* The rows of a source type, whatever the source id
LedgerRows_anySourceId(u, stype, sid) ==
  { i \in DOMAIN xp_transactions :
      /\ xp_transactions[i].source_type = stype
      /\ (u = 0 \/ xp_transactions[i].user_id = u) }

\* Indices of the ledger rows of one source, optionally of one user (u = 0: all)
LedgerRows(u, stype, sid) ==
  { i \in DOMAIN xp_transactions :
      /\ xp_transactions[i].source_type = stype
      /\ xp_transactions[i].source_id = sid
      /\ (u = 0 \/ xp_transactions[i].user_id = u) }

RECURSIVE SumAmounts(_)
SumAmounts(rowset) ==
  IF rowset = {} THEN 0
  ELSE LET i == CHOOSE x \in rowset : TRUE
       IN  xp_transactions[i].amount + SumAmounts(rowset \ {i})

(* --------------------------- Raid model ------------------------------- *)

NoRaid ==
  [ id |-> 0, isActive |-> FALSE, status |-> "none", startTime |-> 0, endTime |-> 0,
    targetLikes |-> 0, targetRetweets |-> 0, targetComments |-> 0,
    actualLikes |-> 0, actualRetweets |-> 0, actualComments |-> 0,
    tokenType |-> 0, totalReward |-> 0, tokenPerXp |-> 0, thresholdXp |-> 0,
    campaignId |-> 0, duration |-> 0, requireVerification |-> FALSE,
    rewardsDistributed |-> FALSE, tweetUrl |-> FALSE, adminId |-> FALSE,
    chatId |-> FALSE ]

\* new Raid(raidData) throws a ReferenceError exactly when it reaches the
\* third operand of  raidData.target_comments || raidData.targetComments || a0
RaidCtorThrows(d) == d.target_comments = 0

\* new Raid(raidData): every field is  data || default; rewards_distributed
\* is not read, so the instance has no rewardsDistributed property (falsy),
\* and requireVerification is  x || y || true.
RaidCtor(id, d) ==
  [ id |-> id,
    isActive |-> d.is_active,
    status |-> d.status,
    startTime |-> d.start_time,
    endTime |-> d.end_time,
    targetLikes |-> d.target_likes,
    targetRetweets |-> d.target_retweets,
    targetComments |-> d.target_comments,
    actualLikes |-> d.actual_likes,
    actualRetweets |-> d.actual_retweets,
    actualComments |-> d.actual_comments,
    tokenType |-> d.token_type,
    totalReward |-> d.total_reward,
    tokenPerXp |-> d.token_per_xp,
    thresholdXp |-> d.threshold_xp,
    campaignId |-> d.campaign_id,
    duration |-> IF d.duration = 0 THEN DefaultDuration ELSE d.duration,
    requireVerification |-> d.require_verification \/ TRUE,
    rewardsDistributed |-> FALSE,
    tweetUrl |-> d.tweet_url,
    adminId |-> d.admin_id,
    chatId |-> d.chat_id ]

\* The raidData object Raid.save writes; rewards_distributed is not in it, so
\* an update leaves the column as it is and an insert takes its default.
RaidSaveData(r, column) ==
  [ is_active |-> r.isActive,
    status |-> r.status,
    start_time |-> r.startTime,
    end_time |-> r.endTime,
    target_likes |-> r.targetLikes,
    target_retweets |-> r.targetRetweets,
    target_comments |-> r.targetComments,
    actual_likes |-> r.actualLikes,
    actual_retweets |-> r.actualRetweets,
    actual_comments |-> r.actualComments,
    token_type |-> r.tokenType,
    total_reward |-> r.totalReward,
    token_per_xp |-> r.tokenPerXp,
    threshold_xp |-> r.thresholdXp,
    campaign_id |-> r.campaignId,
    duration |-> r.duration,
    require_verification |-> r.requireVerification,
    rewards_distributed |-> column,
    tweet_url |-> r.tweetUrl,
    admin_id |-> r.adminId,
    chat_id |-> r.chatId ]

\* A validation of the reward configuration alone
RaidValid_rewardOnly(r) == ~(r.totalReward # 0 /\ r.tokenType = 0)

\* Raid.validate, the fields of the model: the tweet URL (present or not),
\* the admin and the chat are required; a pool needs a token.
RaidValid(r) ==
  /\ r.tweetUrl
  /\ r.adminId
  /\ r.chatId
  /\ ~(r.totalReward # 0 /\ r.tokenType = 0)

\* Raid.isTargetMet
isTargetMet(r) ==
  IF r.targetLikes = 0 /\ r.targetRetweets = 0 /\ r.targetComments = 0
  THEN TRUE
  ELSE /\ r.actualLikes >= r.targetLikes
       /\ r.actualRetweets >= r.targetRetweets
       /\ r.actualComments >= r.targetComments

\* Raid.getXpForAction
getXpForAction(a) ==
  CASE a.type = "like" -> XpLike
    [] a.type = "retweet" -> XpRetweet
    [] a.type = "comment" ->
         IF a.hasMedia
         THEN (IF a.isGif THEN XpCommentWithGif ELSE XpCommentWithImage)
         ELSE XpComment
    [] a.type = "bookmark" -> XpBookmark
    [] OTHER -> 0

\* Math.floor(xpEarned * 0.75)
Penalised(xp) == (xp * 3) \div 4

\* Raid.updateStatistics, the recount it assigns to the instance
WithStatistics(r) ==
  [ r EXCEPT !.actualLikes = CountActions(r.id, "like"),
             !.actualRetweets = CountActions(r.id, "retweet"),
             !.actualComments = CountActions(r.id, "comment") ]

\* supabase.from('raids').update(raidData).eq('id', this.id)
RaidUpdated(r) ==
  [ raids EXCEPT ![r.id] = RaidSaveData(r, raids[r.id].rewards_distributed) ]

RaidExists(id) == id \in DOMAIN raids

(* ------------------------------ tasks --------------------------------- *)

NoInput == [type |-> "none", hasMedia |-> FALSE, isGif |-> FALSE]

NoCampaign ==
  [ id |-> 0, startDate |-> 0, endDate |-> 0,
    isActive |-> FALSE, status |-> "none", tokenType |-> 0,
    totalBudget |-> 0, tokenPerXp |-> 0, thresholdXp |-> 0,
    rewardsDistributed |-> FALSE ]

\* The fields of a users row the model keeps (new User(userData) copies them)
NoUser ==
  [ total_xp |-> 0, is_verified |-> FALSE, sui_wallet_connected |-> FALSE,
    sui_wallet_address |-> 0, twitter_id |-> 0, twitter_token |-> 0,
    twitter_connected |-> FALSE ]

IdleLoc ==
  [ op |-> "none", raidId |-> 0, campaignId |-> 0, user |-> 0, input |-> NoInput,
    cancelled |-> FALSE, raid |-> NoRaid, campaign |-> NoCampaign, raidIds |-> {},
    xpEarned |-> 0, totalXp |-> 0, userRow |-> NoUser,
    sourceType |-> "none", sourceId |-> 0,
    rewards |-> << >>, batch |-> 0, idx |-> 0, successful |-> << >>, failed |-> << >>,
    called |-> << >>, sweep |-> FALSE, queue |-> << >>, now |-> 0,
    verifying |-> FALSE, toRecord |-> << >>, likeRecorded |-> FALSE,
    chat |-> 0, text |-> "none", answer |-> "none", state |-> 0, twitterId |-> 0 ]

\* The task goes on to its next await with locals l.
Goto(p, label, l) ==
  /\ pc' = [pc EXCEPT ![p] = label]
  /\ loc' = [loc EXCEPT ![p] = l]
  /\ res' = res

\* verifyUserActions after its Twitter queries and after each recordUserAction
\* it awaited: the next verified action is recorded (the call runs up to its
\* await Raid.findById), in the order like, retweet, comment; after the last
\* one verifyUserActions returns success: true.
verifyUserActions_record(p, l) ==
  IF l.toRecord = << >>
  THEN /\ pc' = [pc EXCEPT ![p] = "idle"]
       /\ loc' = [loc EXCEPT ![p] = IdleLoc]
       /\ res' = [res EXCEPT ![p] = "verified"]
  ELSE Goto(p, "recordUserAction_findRaid",
            [IdleLoc EXCEPT !.op = "verifyUserActions", !.raidId = l.raidId,
                            !.user = l.user, !.input = Head(l.toRecord),
                            !.verifying = TRUE, !.toRecord = Tail(l.toRecord),
                            !.likeRecorded = l.likeRecorded])

\* The call returns (or throws) r and the task is free again; a
\* recordUserAction awaited by verifyUserActions returns to it.
Finish(p, r) ==
  IF loc[p].verifying
  THEN verifyUserActions_record(p,
         [loc[p] EXCEPT !.likeRecorded =
            loc[p].likeRecorded \/ (loc[p].input.type = "like" /\ r = "success")])
  ELSE /\ pc' = [pc EXCEPT ![p] = "idle"]
       /\ loc' = [loc EXCEPT ![p] = IdleLoc]
       /\ res' = [res EXCEPT ![p] = r]

\* A call starts: the task runs up to its first await.
Start(p, label, l) ==
  /\ pc[p] = "idle"
  /\ \A q \in Procs : q = p \/ FirstProc = p \/ pc[q] # "idle"
  /\ ops > 0
  /\ ops' = ops - 1
  /\ pc' = [pc EXCEPT ![p] = label]
  /\ loc' = [loc EXCEPT ![p] = l]
  /\ res' = [res EXCEPT ![p] = "pending"]

(* ----------------------- raidService.createRaid ----------------------- *)

\* createRaid(raidData, bot) up to  await twitterService.getTweetInfo
createRaid(p, cfg) ==
  /\ Len(raids) < MaxRaids
  /\ \A q \in Procs : loc[q].op # "createRaid"
  /\ Start(p, "createRaid_save",
           [IdleLoc EXCEPT !.op = "createRaid",
              !.raid = [NoRaid EXCEPT
                 !.targetLikes = cfg.targetLikes,
                 !.targetComments = cfg.targetComments,
                 !.totalReward = cfg.totalReward,
                 !.tokenPerXp = cfg.tokenPerXp,
                 !.tokenType = cfg.tokenType,
                 !.thresholdXp = cfg.thresholdXp,
                 !.campaignId = cfg.campaignId,
                 !.requireVerification = cfg.requireVerification,
                 !.tweetUrl = cfg.tweetUrl,
                 !.adminId = cfg.adminId,
                 !.chatId = cfg.chatId]])
  /\ UNCHANGED << store, timers, front, sent, batches, clock >>

\* getTweetInfo answers, or throws without a tweet URL; new Raid({...}) and
\* savedRaid = await raid.save()  (validate, insert)
createRaid_save(p) ==
  /\ pc[p] = "createRaid_save"
  /\ LET c == loc[p].raid
         data == [ RaidSaveData(c, FALSE) EXCEPT
                     !.start_time = clock, !.is_active = TRUE,
                     !.status = "", !.duration = DefaultDuration ]
         raid == [ RaidCtor(Len(raids) + 1, data) EXCEPT !.status = ACTIVE ]
     IN  IF ~c.tweetUrl
         THEN /\ Finish(p, "tweet_error")
              /\ UNCHANGED << raids, clock >>
         ELSE IF RaidCtorThrows(data)
         THEN /\ Finish(p, "reference_error")
              /\ UNCHANGED << raids, clock >>
         ELSE IF ~RaidValid(raid)
         THEN /\ Finish(p, "validation_error")
              /\ UNCHANGED << raids, clock >>
         ELSE /\ raids' = Append(raids, RaidSaveData(raid, FALSE))
              /\ clock' = clock + 1
              /\ Goto(p, "createRaid_announce", [loc[p] EXCEPT !.raid = raid])
  /\ UNCHANGED << campaigns, user_actions, xp_transactions, users, timers, front,
                  sent, batches, ops >>

\* message = await sendRaidAnnouncement(...): bot.sendMessage may throw, and
\* createRaid rethrows; otherwise  savedRaid.messageId = ...; savedRaid.save()
createRaid_announce(p) ==
  /\ pc[p] = "createRaid_announce"
  /\ \E delivered \in BOOLEAN :
       IF delivered
       THEN Goto(p, "createRaid_saveMessage", loc[p])
       ELSE Finish(p, "announcement_error")
  /\ UNCHANGED << store, timers, front, sent, batches, clock, ops >>

\* await savedRaid.save()  with the message id
createRaid_saveMessage(p) ==
  /\ pc[p] = "createRaid_saveMessage"
  /\ raids' = RaidUpdated(loc[p].raid)
  /\ Goto(p, "createRaid_saveEnd",
          [loc[p] EXCEPT !.raid.endTime = loc[p].raid.startTime + loc[p].raid.duration])
  /\ UNCHANGED << campaigns, user_actions, xp_transactions, users, timers, front,
                  sent, batches, clock, ops >>

\* savedRaid.endTime = startTime + duration; await savedRaid.save();
\* scheduleRaidEnd(savedRaid.id, bot, duration * 1000)
createRaid_saveEnd(p) ==
  /\ pc[p] = "createRaid_saveEnd"
  /\ raids' = RaidUpdated(loc[p].raid)
  /\ timers' = timers \cup {loc[p].raid.id}
  /\ UNCHANGED front
  /\ Finish(p, "created")
  /\ UNCHANGED << campaigns, user_actions, xp_transactions, users,
                  sent, batches, clock, ops >>

(* -------------------- raidService.recordUserAction -------------------- *)

\* recordUserAction(raidId, telegramId, actionType, actionData) up to
\* await Raid.findById(raidId)
recordUserAction(p, raidId, u, a) ==
  /\ Start(p, "recordUserAction_findRaid",
           [IdleLoc EXCEPT !.op = "recordUserAction", !.raidId = raidId,
                           !.user = u, !.input = a])
  /\ UNCHANGED << store, timers, front, sent, batches, clock >>

\* The same step without the early return for a raid that is not active
recordUserAction_findRaid_noActiveCheck(p) ==
  /\ pc[p] = "recordUserAction_findRaid"
  /\ IF ~RaidExists(loc[p].raidId)
     THEN Finish(p, "raid_not_found")
     ELSE Goto(p, "recordUserAction_findUser",
               [loc[p] EXCEPT !.raid =
                  [RaidCtor(loc[p].raidId, raids[loc[p].raidId]) EXCEPT !.isActive = TRUE]])
  /\ UNCHANGED << store, timers, front, sent, batches, clock, ops >>

\* raid = await Raid.findById(raidId); the two early returns
recordUserAction_findRaid(p) ==
  /\ pc[p] = "recordUserAction_findRaid"
  /\ IF ~RaidExists(loc[p].raidId)
     THEN Finish(p, "raid_not_found")
     ELSE LET raid == RaidCtor(loc[p].raidId, raids[loc[p].raidId])
          IN  IF ~raid.isActive
              THEN Finish(p, "not_active")
              ELSE Goto(p, "recordUserAction_findUser", [loc[p] EXCEPT !.raid = raid])
  /\ UNCHANGED << store, timers, front, sent, batches, clock, ops >>

\* user = await User.findByTelegramId(telegramId); the verification check;
\* then Raid.recordUserAction up to its first select
recordUserAction_findUser(p) ==
  /\ pc[p] = "recordUserAction_findUser"
  /\ IF loc[p].user \notin DOMAIN users
     THEN Finish(p, "user_not_found")
     ELSE IF loc[p].raid.requireVerification /\ ~users[loc[p].user].is_verified
          THEN Finish(p, "needs_verification")
          ELSE IF ~loc[p].raid.isActive
               THEN Finish(p, "not_active")
               ELSE Goto(p, "Raid_recordUserAction_existing", loc[p])
  /\ UNCHANGED << store, timers, front, sent, batches, clock, ops >>

\* the select of an existing action (.single()), then getXpForAction
Raid_recordUserAction_existing(p) ==
  /\ pc[p] = "Raid_recordUserAction_existing"
  /\ LET l == loc[p]
     IN  IF SingleHasData(ActionRows(l.user, l.raid.id, l.input.type))
         THEN Finish(p, "existing")
         ELSE Goto(p,
                   IF l.input.type # "like" THEN "Raid_recordUserAction_hasLiked"
                                            ELSE "Raid_recordUserAction_insert",
                   [l EXCEPT !.xpEarned = getXpForAction(l.input)])
  /\ UNCHANGED << store, timers, front, sent, batches, clock, ops >>

\* the select of the user's like (.single()) and the 25% penalty
Raid_recordUserAction_hasLiked(p) ==
  /\ pc[p] = "Raid_recordUserAction_hasLiked"
  /\ LET l == loc[p]
     IN  Goto(p, "Raid_recordUserAction_insert",
              IF SingleHasData(ActionRows(l.user, l.raid.id, "like"))
              THEN l
              ELSE [l EXCEPT !.xpEarned = Penalised(l.xpEarned)])
  /\ UNCHANGED << store, timers, front, sent, batches, clock, ops >>

\* supabase.from('user_actions').insert({...})
Raid_recordUserAction_insert(p) ==
  /\ pc[p] = "Raid_recordUserAction_insert"
  /\ LET l == loc[p]
     IN  /\ user_actions' = Append(user_actions,
                [ user_id |-> l.user, raid_id |-> l.raid.id,
                  action_type |-> l.input.type, xp_earned |-> l.xpEarned ])
         /\ Goto(p, "Raid_recordUserAction_findUser", l)
  /\ UNCHANGED << raids, campaigns, xp_transactions, users, timers, front,
                  sent, batches, clock, ops >>

\* user = await User.findByTelegramId(telegramId)
Raid_recordUserAction_findUser(p) ==
  /\ pc[p] = "Raid_recordUserAction_findUser"
  /\ Goto(p, "User_addXp_insert",
          [loc[p] EXCEPT !.totalXp = users[loc[p].user].total_xp,
                         !.userRow = users[loc[p].user],
                         !.sourceType = "raid", !.sourceId = loc[p].raid.id])
  /\ UNCHANGED << store, timers, front, sent, batches, clock, ops >>

\* User.addXp: the insert into xp_transactions, then this.totalXp += amount
User_addXp_insert(p) ==
  /\ pc[p] = "User_addXp_insert"
  /\ LET l == loc[p]
     IN  /\ xp_transactions' = Append(xp_transactions,
                [ user_id |-> l.user, amount |-> l.xpEarned,
                  source_type |-> l.sourceType, source_id |-> l.sourceId,
                  previous_total |-> l.totalXp,
                  new_total |-> l.totalXp + l.xpEarned ])
         /\ Goto(p, "User_addXp_save", [l EXCEPT !.totalXp = l.totalXp + l.xpEarned])
  /\ UNCHANGED << raids, campaigns, user_actions, users, timers, front,
                  sent, batches, clock, ops >>

\* User.save: the update of the whole users row from the instance (the
\* select that finds the row first always finds it: users are never deleted)
User_addXp_save(p) ==
  /\ pc[p] = "User_addXp_save"
  /\ users' = [users EXCEPT ![loc[p].user] =
                  [loc[p].userRow EXCEPT !.total_xp = loc[p].totalXp]]
  /\ Goto(p, "Raid_recordUserAction_statistics", loc[p])
  /\ UNCHANGED << raids, campaigns, user_actions, xp_transactions, timers, front,
                  sent, batches, clock, ops >>

\* User.addXp: the insert into xp_transactions answers with an error; addXp
\* throws, Raid.recordUserAction catches and returns success: false, and
\* raidService.recordUserAction returns that result
User_addXp_insert_error(p) ==
  /\ pc[p] = "User_addXp_insert"
  /\ Finish(p, "record_failed")
  /\ UNCHANGED << store, timers, front, sent, batches, clock, ops >>

\* User.addXp: the ledger row is in, and the update of User.save answers with
\* an error; save throws and the call returns success: false as above
User_addXp_save_error(p) ==
  /\ pc[p] = "User_addXp_save"
  /\ Finish(p, "record_failed")
  /\ UNCHANGED << store, timers, front, sent, batches, clock, ops >>

\* await this.updateStatistics(): the count query
Raid_recordUserAction_statistics(p) ==
  /\ pc[p] = "Raid_recordUserAction_statistics"
  /\ Goto(p, "Raid_recordUserAction_save", [loc[p] EXCEPT !.raid = WithStatistics(loc[p].raid)])
  /\ UNCHANGED << store, timers, front, sent, batches, clock, ops >>

\* ... and its this.save(); Raid.recordUserAction returns success
Raid_recordUserAction_save(p) ==
  /\ pc[p] = "Raid_recordUserAction_save"
  /\ raids' = RaidUpdated(loc[p].raid)
  /\ Goto(p, "recordUserAction_statistics", loc[p])
  /\ UNCHANGED << campaigns, user_actions, xp_transactions, users, timers, front,
                  sent, batches, clock, ops >>

\* if (result.success) await raid.updateStatistics(): the count query
recordUserAction_statistics(p) ==
  /\ pc[p] = "recordUserAction_statistics"
  /\ Goto(p, "recordUserAction_save", [loc[p] EXCEPT !.raid = WithStatistics(loc[p].raid)])
  /\ UNCHANGED << store, timers, front, sent, batches, clock, ops >>

\* ... and its this.save(); recordUserAction returns the result
recordUserAction_save(p) ==
  /\ pc[p] = "recordUserAction_save"
  /\ raids' = RaidUpdated(loc[p].raid)
  /\ Finish(p, "success")
  /\ UNCHANGED << campaigns, user_actions, xp_transactions, users, timers, front,
                  sent, batches, clock, ops >>

(* -------------------- raidService.verifyUserActions ------------------- *)

hasTwitterConnected(u) == u.twitter_connected /\ u.twitter_token # 0

\* verifyUserActions(raidId, telegramId) up to await Raid.findById(raidId)
verifyUserActions(p, raidId, u) ==
  /\ Start(p, "verifyUserActions_findRaid",
           [IdleLoc EXCEPT !.op = "verifyUserActions", !.raidId = raidId, !.user = u])
  /\ UNCHANGED << store, timers, front, sent, batches, clock >>

\* raid = await Raid.findById(raidId); the early return
verifyUserActions_findRaid(p) ==
  /\ pc[p] = "verifyUserActions_findRaid"
  /\ IF ~RaidExists(loc[p].raidId)
     THEN Finish(p, "raid_not_found")
     ELSE Goto(p, "verifyUserActions_findUser", loc[p])
  /\ UNCHANGED << store, timers, front, sent, batches, clock, ops >>

\* user = await User.findByTelegramId(telegramId); the two early returns
verifyUserActions_findUser(p) ==
  /\ pc[p] = "verifyUserActions_findUser"
  /\ IF loc[p].user \notin DOMAIN users
     THEN Finish(p, "user_not_found")
     ELSE IF ~hasTwitterConnected(users[loc[p].user])
          THEN Finish(p, "needs_twitter")
          ELSE Goto(p, "verifyUserActions_hasLiked", loc[p])
  /\ UNCHANGED << store, timers, front, sent, batches, clock, ops >>

\* hasLiked = await twitterService.hasUserLikedTweet(...): Twitter answers
verifyUserActions_hasLiked(p, hasLiked) ==
  /\ pc[p] = "verifyUserActions_hasLiked"
  /\ Goto(p, "verifyUserActions_hasRetweeted",
          [loc[p] EXCEPT !.toRecord =
             IF hasLiked THEN << LikeInput >> ELSE << >>])
  /\ UNCHANGED << store, timers, front, sent, batches, clock, ops >>

\* hasRetweeted = await twitterService.hasUserRetweetedTweet(...)
verifyUserActions_hasRetweeted(p, hasRetweeted) ==
  /\ pc[p] = "verifyUserActions_hasRetweeted"
  /\ Goto(p, "verifyUserActions_replies",
          [loc[p] EXCEPT !.toRecord =
             IF hasRetweeted THEN Append(@, RetweetInput) ELSE @])
  /\ UNCHANGED << store, timers, front, sent, batches, clock, ops >>

\* replies = await twitterService.getUserRepliesToTweet(...); reply is the
\* first one (NoInput: there is none); then the first recordUserAction
verifyUserActions_replies(p, reply) ==
  /\ pc[p] = "verifyUserActions_replies"
  /\ verifyUserActions_record(p,
        [loc[p] EXCEPT !.toRecord =
           IF reply.type = "comment" THEN Append(@, reply) ELSE @])
  /\ UNCHANGED << store, timers, front, sent, batches, clock, ops >>

(* ------------------- Raid.calculateAllRewards ------------------------- *)

\* Users with at least one ledger row of the source (the inner join with
\* users keeps those that have a users row).
Participants(stype, sid) ==
  { u \in DOMAIN users : LedgerRows(u, stype, sid) # {} }

\* .order('total_xp', { ascending: false }); equal totals in telegram id order
RECURSIVE OrderByXp(_, _)
OrderByXp(us, xp) ==
  IF us = {} THEN << >>
  ELSE LET top == CHOOSE u \in us :
                    \A v \in us : xp[u] > xp[v] \/ (xp[u] = xp[v] /\ u <= v)
       IN  << top >> \o OrderByXp(us \ {top}, xp)

RECURSIVE SumXp(_, _)
SumXp(us, xp) ==
  IF us = {} THEN 0
  ELSE LET u == CHOOSE x \in us : TRUE IN xp[u] + SumXp(us \ {u}, xp)

\* A reward's tokenAmount is the fraction num / den; rows are the ledger
\* rows whose amounts make up xpAmount.
Reward(u, rows, num, den, tokenType) ==
  [ telegramId |-> u, walletAddress |-> users[u].sui_wallet_address,
    xpAmount |-> SumAmounts(rows), rows |-> rows, num |-> num, den |-> den,
    tokenType |-> tokenType ]

\* A first pass that keeps every participant
eligibleUsers_noFilter(r, xp) == DOMAIN xp

\* The first pass: entries without a connected wallet or below a positive
\* threshold are skipped
eligibleUsers(r, xp) ==
  { u \in DOMAIN xp :
      /\ users[u].sui_wallet_connected /\ users[u].sui_wallet_address # 0
      /\ ~(r.thresholdXp > 0 /\ xp[u] < r.thresholdXp) }

\* A sum over every participant instead of the eligible ones
totalEligibleXp_allParticipants(us, xp) == SumXp(DOMAIN xp, xp)

\* totalEligibleXp, accumulated by the first pass
totalEligibleXp(us, xp) == SumXp(us, xp)

\* A second pass that tests the pool before the rate
tokenAmount_poolFirst(r, total_xp, total) ==
  IF r.totalReward # 0 /\ total > 0
  THEN [ num |-> total_xp * r.totalReward, den |-> total ]
  ELSE IF r.tokenPerXp # 0
       THEN [ num |-> total_xp * r.tokenPerXp, den |-> 1 ]
       ELSE [ num |-> 0, den |-> 1 ]

\* A second pass that gives every entry the same share of the pool
tokenAmount_equalShare(r, total_xp, total) ==
  IF r.tokenPerXp # 0
  THEN [ num |-> total_xp * r.tokenPerXp, den |-> 1 ]
  ELSE IF r.totalReward # 0 /\ total > 0
       THEN [ num |-> r.totalReward, den |-> 1 ]
       ELSE [ num |-> 0, den |-> 1 ]

\* The second pass: tokenAmount of an entry, as the fraction num / den
tokenAmount(r, total_xp, total) ==
  IF r.tokenPerXp # 0
  THEN [ num |-> total_xp * r.tokenPerXp, den |-> 1 ]
  ELSE IF r.totalReward # 0 /\ total > 0
       THEN [ num |-> total_xp * r.totalReward, den |-> total ]
       ELSE [ num |-> 0, den |-> 1 ]

\* Raid.calculateAllRewards: the two passes over the grouped ledger query
calculateAllRewards(r) ==
  LET xp == [ u \in Participants("raid", r.id) |->
                SumAmounts(LedgerRows(u, "raid", r.id)) ]
      eligible == eligibleUsers(r, xp)
      total == totalEligibleXp(eligible, xp)
      order == OrderByXp(eligible, xp)
  IN  [ i \in DOMAIN order |->
          LET u == order[i]
              amount == tokenAmount(r, xp[u], total)
          IN  Reward(u, LedgerRows(u, "raid", r.id), amount.num, amount.den,
                     r.tokenType) ]

(* --------------------- Raid.calculateUserReward ----------------------- *)

\* Raid.getTotalXp: sum(amount) of the ledger rows of the raid, or 0
getTotalXp(r) ==
  SumAmounts({ i \in DOMAIN xp_transactions :
                 /\ xp_transactions[i].source_type = "raid"
                 /\ xp_transactions[i].source_id = r.id })

\* raid.calculateUserReward(telegramId) on a loaded raid, up to
\* await User.findByTelegramId(telegramId)
calculateUserReward(p, r, u) ==
  /\ r \in DOMAIN raids
  /\ Start(p, "calculateUserReward_findUser",
           [IdleLoc EXCEPT !.op = "calculateUserReward", !.raidId = r, !.user = u,
                           !.raid = RaidCtor(r, raids[r])])
  /\ UNCHANGED << store, timers, front, sent, batches, clock >>

\* the user is found or not; up to  await user.getXpForSource('raid', id)
calculateUserReward_findUser(p) ==
  /\ pc[p] = "calculateUserReward_findUser"
  /\ IF loc[p].user \notin DOMAIN users
     THEN Goto(p, "calculateUserReward_return", [loc[p] EXCEPT !.rewards = << >>])
     ELSE Goto(p, "calculateUserReward_getXp", loc[p])
  /\ UNCHANGED << store, timers, front, sent, batches, clock, ops >>

\* userXp is read; the threshold, the failed raid, the fixed rate; for a
\* pool up to  await this.getTotalXp().  The result is kept in rewards:
\* empty for eligible: false, one reward for eligible: true.
calculateUserReward_getXp(p) ==
  /\ pc[p] = "calculateUserReward_getXp"
  /\ LET l == loc[p]
         r == l.raid
         rows == LedgerRows(l.user, "raid", r.id)
         userXp == SumAmounts(rows)
     IN  IF r.thresholdXp > 0 /\ userXp < r.thresholdXp
         THEN Goto(p, "calculateUserReward_return", [l EXCEPT !.rewards = << >>])
         ELSE IF r.status = FAILED /\ r.campaignId = 0
         THEN Goto(p, "calculateUserReward_return", [l EXCEPT !.rewards = << >>])
         ELSE IF r.tokenPerXp # 0
         THEN Goto(p, "calculateUserReward_return",
                   [l EXCEPT !.rewards =
                      << Reward(l.user, rows, userXp * r.tokenPerXp, 1, r.tokenType) >>])
         ELSE IF r.totalReward # 0
         THEN Goto(p, "calculateUserReward_getTotalXp", [l EXCEPT !.totalXp = userXp])
         ELSE Goto(p, "calculateUserReward_return",
                   [l EXCEPT !.rewards = << Reward(l.user, rows, 0, 1, r.tokenType) >>])
  /\ UNCHANGED << store, timers, front, sent, batches, clock, ops >>

\* totalXp is read: (userXp / totalXp) * totalReward if totalXp > 0
calculateUserReward_getTotalXp(p) ==
  /\ pc[p] = "calculateUserReward_getTotalXp"
  /\ LET l == loc[p]
         totalXp == getTotalXp(l.raid)
         rows == LedgerRows(l.user, "raid", l.raid.id)
     IN  Goto(p, "calculateUserReward_return",
              [l EXCEPT !.rewards =
                 << IF totalXp > 0
                    THEN Reward(l.user, rows, l.totalXp * l.raid.totalReward, totalXp,
                                l.raid.tokenType)
                    ELSE Reward(l.user, rows, 0, 1, l.raid.tokenType) >>])
  /\ UNCHANGED << store, timers, front, sent, batches, clock, ops >>

\* The caller has the result
calculateUserReward_return(p) ==
  /\ pc[p] = "calculateUserReward_return"
  /\ Finish(p, IF loc[p].rewards = << >> THEN "not_eligible" ELSE "eligible")
  /\ UNCHANGED << store, timers, front, sent, batches, clock, ops >>

(* ----------------- scheduleRaidEnd and raidService.endRaid ------------ *)

\* One invocation of raidService.distributeRewards(rewards, owner, bot);
\* done: suiService.distributeRewards returned and the owner was saved.
Batch(stype, sid, rewards) ==
  [ source_type |-> stype, source_id |-> sid,
    recipients |-> { rewards[i].telegramId : i \in DOMAIN rewards },
    done |-> FALSE ]

\* The setTimeout of scheduleRaidEnd fires: the callback runs up to
\* await Raid.findById(raidId)
scheduleRaidEnd(p, id) ==
  /\ id \in timers
  /\ pc[p] = "idle"
  /\ \A q \in Procs : q = p \/ FirstProc = p \/ pc[q] # "idle"
  /\ timers' = timers \ {id}
  /\ UNCHANGED front
  /\ pc' = [pc EXCEPT ![p] = "endRaid_findRaid"]
  /\ loc' = [loc EXCEPT ![p] = [IdleLoc EXCEPT !.op = "scheduleRaidEnd", !.raidId = id]]
  /\ res' = [res EXCEPT ![p] = "pending"]
  /\ UNCHANGED << store, sent, batches, clock, ops >>

\* An admin ends the active raid of the chat, optionally cancelling it: like
\* handleEndRaidCommand the caller selects the raid and goes on only if it is
\* active, then calls raidService.endRaid(raid, bot, options)
endRaid(p, id, cancelled) ==
  /\ Start(p, "endRaid_findRaid",
           [IdleLoc EXCEPT !.op = "endRaid", !.raidId = id, !.cancelled = cancelled])
  /\ UNCHANGED << store, timers, front, sent, batches, clock >>

\* Raid.end up to its save: endTime, status, isActive
RaidEnd(r, cancelled, now) ==
  [ r EXCEPT !.endTime = IF r.endTime = 0 THEN now ELSE r.endTime,
             !.status = IF cancelled THEN CANCELLED
                        ELSE IF isTargetMet(r) THEN COMPLETED ELSE FAILED,
             !.isActive = FALSE ]

\* raid = await Raid.findById(raidId); skip if it does not exist or is not
\* active; otherwise endRaid(raid, bot, options) up to the save of raid.end
endRaid_findRaid(p) ==
  /\ pc[p] = "endRaid_findRaid"
  /\ IF ~RaidExists(loc[p].raidId)
     THEN Finish(p, "skipped") /\ clock' = clock
     ELSE LET raid == RaidCtor(loc[p].raidId, raids[loc[p].raidId])
          IN  IF ~raid.isActive
              THEN Finish(p, "skipped") /\ clock' = clock
              ELSE /\ Goto(p, "Raid_end_save",
                           [loc[p] EXCEPT !.raid = RaidEnd(raid, loc[p].cancelled, clock)])
                   /\ clock' = IF raid.endTime = 0 THEN clock + 1 ELSE clock
  /\ UNCHANGED << store, timers, front, sent, batches, ops >>

\* endedRaid = the new Raid(result) of raid.end's this.save()
Raid_end_save(p) ==
  /\ pc[p] = "Raid_end_save"
  /\ raids' = RaidUpdated(loc[p].raid)
  /\ Goto(p, "endRaid_statistics",
          [loc[p] EXCEPT !.raid = RaidCtor(loc[p].raid.id, raids'[loc[p].raid.id])])
  /\ UNCHANGED << campaigns, user_actions, xp_transactions, users, timers, front,
                  sent, batches, clock, ops >>

\* await endedRaid.updateStatistics(): the count query
endRaid_statistics(p) ==
  /\ pc[p] = "endRaid_statistics"
  /\ Goto(p, "endRaid_statisticsSave", [loc[p] EXCEPT !.raid = WithStatistics(loc[p].raid)])
  /\ UNCHANGED << store, timers, front, sent, batches, clock, ops >>

\* A condition that leaves out the status
RewardsApplicableAnyStatus(r) ==
  /\ (r.totalReward # 0 \/ r.tokenPerXp # 0)
  /\ ~r.rewardsDistributed

\* The condition under which endRaid calculates rewards
RewardsApplicable(r) ==
  /\ r.status = COMPLETED
  /\ (r.totalReward # 0 \/ r.tokenPerXp # 0)
  /\ ~r.rewardsDistributed

\* ... and its this.save(); then the test whether rewards apply
endRaid_statisticsSave(p) ==
  /\ pc[p] = "endRaid_statisticsSave"
  /\ raids' = RaidUpdated(loc[p].raid)
  /\ Goto(p, IF RewardsApplicable(loc[p].raid) THEN "endRaid_calculateAllRewards"
                                              ELSE "endRaid_completionMessage",
          loc[p])
  /\ UNCHANGED << campaigns, user_actions, xp_transactions, users, timers, front,
                  sent, batches, clock, ops >>

\* rewards = await endedRaid.calculateAllRewards()
endRaid_calculateAllRewards(p) ==
  /\ pc[p] = "endRaid_calculateAllRewards"
  /\ Goto(p, "endRaid_completionMessage",
          [loc[p] EXCEPT !.rewards = calculateAllRewards(loc[p].raid)])
  /\ UNCHANGED << store, timers, front, sent, batches, clock, ops >>

\* await sendRaidCompletionMessage(...): a failed bot.sendMessage makes
\* endRaid throw; otherwise distributeRewards is called if there are rewards
\* and the raid has no campaign, and runs up to its first sendTokens
endRaid_completionMessage(p) ==
  /\ pc[p] = "endRaid_completionMessage"
  /\ \E delivered \in BOOLEAN :
       IF ~delivered
       THEN Finish(p, "end_error") /\ batches' = batches
       ELSE IF Len(loc[p].rewards) > 0 /\ loc[p].raid.campaignId = 0
            THEN /\ batches' = Append(batches,
                       Batch("raid", loc[p].raid.id, loc[p].rewards))
                 /\ Goto(p, "distributeRewards_sendTokens",
                         [loc[p] EXCEPT !.idx = 1, !.batch = Len(batches) + 1])
            ELSE Finish(p, "ended") /\ batches' = batches
  /\ UNCHANGED << store, timers, front, sent, clock, ops >>


(* -------------------------- Campaign model ---------------------------- *)

\* new Campaign(campaignData): startDate is  data || new Date(), thresholdXp
\* is  data || config.xp.defaultThreshold
CampaignCtor(id, d) ==
  [ id |-> id,
    startDate |-> IF d.start_date = 0 THEN clock ELSE d.start_date,
    endDate |-> d.end_date,
    isActive |-> d.is_active,
    status |-> d.status,
    tokenType |-> d.token_type,
    totalBudget |-> d.total_budget,
    tokenPerXp |-> d.token_per_xp,
    thresholdXp |-> IF d.threshold_xp = 0 THEN DefaultThreshold ELSE d.threshold_xp,
    rewardsDistributed |-> d.rewards_distributed ]

\* The campaignData object Campaign.save writes
CampaignSaveData(c) ==
  [ start_date |-> c.startDate,
    end_date |-> c.endDate,
    is_active |-> c.isActive,
    status |-> c.status,
    token_type |-> c.tokenType,
    total_budget |-> c.totalBudget,
    token_per_xp |-> c.tokenPerXp,
    threshold_xp |-> c.thresholdXp,
    rewards_distributed |-> c.rewardsDistributed ]

\* A validation without the comparison of the dates
CampaignValid_noDateOrder(c) ==
  /\ c.endDate # 0
  /\ c.thresholdXp > 0
  /\ ~((c.totalBudget # 0 \/ c.tokenPerXp # 0) /\ c.tokenType = 0)

\* Campaign.validate, the fields of the model: name, admin and chat are
\* always given here.
CampaignValid(c) ==
  /\ c.endDate # 0
  /\ c.thresholdXp > 0
  /\ ~((c.totalBudget # 0 \/ c.tokenPerXp # 0) /\ c.tokenType = 0)
  /\ ~(c.startDate # 0 /\ c.endDate # 0 /\ c.endDate <= c.startDate)

\* supabase.from('campaigns').update(campaignData).eq('id', this.id)
CampaignUpdated(c) == [ campaigns EXCEPT ![c.id] = CampaignSaveData(c) ]

\* raidService.createCampaign up to the insert of campaign.save()
createCampaign(p, cfg) ==
  /\ Len(campaigns) < MaxCampaigns
  /\ \A q \in Procs : loc[q].op # "createCampaign"
  /\ Start(p, "createCampaign_save",
           [IdleLoc EXCEPT !.op = "createCampaign",
              !.campaign = CampaignCtor(0,
                 [ start_date |-> clock, end_date |-> cfg.endDate,
                   is_active |-> TRUE, status |-> ACTIVE, token_type |-> cfg.tokenType,
                   total_budget |-> cfg.totalBudget, token_per_xp |-> cfg.tokenPerXp,
                   threshold_xp |-> cfg.thresholdXp, rewards_distributed |-> FALSE ])])
  /\ UNCHANGED << store, timers, front, sent, batches, clock >>

\* return await campaign.save()  (validate, insert)
createCampaign_save(p) ==
  /\ pc[p] = "createCampaign_save"
  /\ IF ~CampaignValid(loc[p].campaign)
     THEN Finish(p, "validation_error") /\ campaigns' = campaigns
     ELSE /\ campaigns' = Append(campaigns, CampaignSaveData(loc[p].campaign))
          /\ Finish(p, "campaign_created")
  /\ UNCHANGED << raids, user_actions, xp_transactions, users, timers, front,
                  sent, batches, clock, ops >>

\* campaign.addRaid(raid) for a stored campaign and a stored raid, up to the
\* update of raidInstance.save(): campaignId and the token settings not set
addRaid(p, c, r) ==
  /\ c \in DOMAIN campaigns
  /\ r \in DOMAIN raids
  /\ LET campaign == CampaignCtor(c, campaigns[c])
         raid == RaidCtor(r, raids[r])
     IN  Start(p, "Campaign_addRaid_save",
               [IdleLoc EXCEPT !.op = "addRaid", !.campaign = campaign,
                  !.raid = [ raid EXCEPT
                     !.campaignId = c,
                     !.tokenType = IF raid.tokenType = 0 THEN campaign.tokenType
                                                         ELSE raid.tokenType,
                     !.tokenPerXp = IF raid.tokenPerXp = 0 THEN campaign.tokenPerXp
                                                           ELSE raid.tokenPerXp,
                     !.thresholdXp = IF raid.thresholdXp = 0 THEN campaign.thresholdXp
                                                             ELSE raid.thresholdXp ]])
  /\ UNCHANGED << store, timers, front, sent, batches, clock >>

\* return await raidInstance.save()
Campaign_addRaid_save(p) ==
  /\ pc[p] = "Campaign_addRaid_save"
  /\ IF ~RaidValid(loc[p].raid)
     THEN Finish(p, "validation_error") /\ raids' = raids
     ELSE raids' = RaidUpdated(loc[p].raid) /\ Finish(p, "raid_added")
  /\ UNCHANGED << campaigns, user_actions, xp_transactions, users, timers, front,
                  sent, batches, clock, ops >>

(* ---------------------- raidService.endCampaign ----------------------- *)

\* endCampaign(campaignId, bot, options) up to  await Campaign.findById
endCampaign(p, c, cancelled) ==
  /\ Start(p, "endCampaign_findById",
           [IdleLoc EXCEPT !.op = "endCampaign", !.campaignId = c, !.cancelled = cancelled])
  /\ UNCHANGED << store, timers, front, sent, batches, clock >>

\* A loop of checkForEndedCampaigns that a throw of endCampaign leaves
endCampaign_return_stopOnError(p, r) ==
  IF ~loc[p].sweep
  THEN Finish(p, r)
  ELSE IF loc[p].queue = << >> \/ r \in {"end_error", "campaign_not_found"}
       THEN Finish(p, "swept")
       ELSE Goto(p, "endCampaign_findById",
                 [IdleLoc EXCEPT !.op = "endCampaign", !.campaignId = Head(loc[p].queue),
                                 !.sweep = TRUE, !.queue = Tail(loc[p].queue)])

\* endCampaign returns or throws r.  Called by a task it ends the task; called
\* by the loop of checkForEndedCampaigns, which catches what it throws, the
\* loop goes on to its next campaign, up to that call's Campaign.findById.
endCampaign_return(p, r) ==
  IF ~loc[p].sweep
  THEN Finish(p, r)
  ELSE IF loc[p].queue = << >>
       THEN Finish(p, "swept")
       ELSE Goto(p, "endCampaign_findById",
                 [IdleLoc EXCEPT !.op = "endCampaign", !.campaignId = Head(loc[p].queue),
                                 !.sweep = TRUE, !.queue = Tail(loc[p].queue)])

\* Campaign.end up to its save: status, isActive
CampaignEnd(c, cancelled) ==
  [ c EXCEPT !.status = IF cancelled THEN CANCELLED ELSE COMPLETED,
             !.isActive = FALSE ]

\* campaign = await Campaign.findById(campaignId); throws if there is none,
\* otherwise campaign.end(...) up to its save
endCampaign_findById(p) ==
  /\ pc[p] = "endCampaign_findById"
  /\ IF loc[p].campaignId \notin DOMAIN campaigns
     THEN endCampaign_return(p, "campaign_not_found")
     ELSE Goto(p, "Campaign_end_save",
               [loc[p] EXCEPT !.campaign =
                  CampaignEnd(CampaignCtor(loc[p].campaignId, campaigns[loc[p].campaignId]),
                              loc[p].cancelled)])
  /\ UNCHANGED << store, timers, front, sent, batches, clock, ops >>

\* The condition under which endCampaign calculates rewards
CampaignRewardsApplicable(c) ==
  /\ c.status = COMPLETED
  /\ (c.totalBudget # 0 \/ c.tokenPerXp # 0)
  /\ ~c.rewardsDistributed

\* endedCampaign = the new Campaign(result) of campaign.end's this.save()
Campaign_end_save(p) ==
  /\ pc[p] = "Campaign_end_save"
  /\ campaigns' = CampaignUpdated(loc[p].campaign)
  /\ LET c == CampaignCtor(loc[p].campaign.id, campaigns'[loc[p].campaign.id])
     IN  Goto(p, IF CampaignRewardsApplicable(c) THEN "Campaign_getRaidIdsQuery"
                                                 ELSE "endCampaign_completionMessage",
              [loc[p] EXCEPT !.campaign = c])
  /\ UNCHANGED << raids, user_actions, xp_transactions, users, timers, front,
                  sent, batches, clock, ops >>

\* Raid.findByCampaignId(this.id), the ids getRaidIdsQuery joins
findByCampaignId(c) == { r \in DOMAIN raids : raids[r].campaign_id = c }

\* calculateAllRewards -> getQualifyingUsers -> await this.getRaidIdsQuery()
Campaign_getRaidIdsQuery(p) ==
  /\ pc[p] = "Campaign_getRaidIdsQuery"
  /\ Goto(p, "Campaign_getQualifyingUsers",
          [loc[p] EXCEPT !.raidIds = findByCampaignId(loc[p].campaign.id)])
  /\ UNCHANGED << store, timers, front, sent, batches, clock, ops >>

\* The ledger rows of user u the query of getQualifyingUsers sums
CampaignRows(u, c, raidIds) ==
  { i \in DOMAIN xp_transactions :
      /\ xp_transactions[i].user_id = u
      /\ \/ xp_transactions[i].source_type = "campaign" /\ xp_transactions[i].source_id = c
         \/ xp_transactions[i].source_type = "raid" /\ xp_transactions[i].source_id \in raidIds }

\* Campaign.getQualifyingUsers: GROUP BY user_id HAVING SUM(amount) >=
\* threshold, then the users with a connected wallet, in telegram id order;
\* an empty id list makes the query fail, and the error gives [].
getQualifyingUsers(c, raidIds) ==
  IF raidIds = {} THEN {}
  ELSE { u \in DOMAIN users :
           /\ CampaignRows(u, c.id, raidIds) # {}
           /\ SumAmounts(CampaignRows(u, c.id, raidIds)) >= c.thresholdXp
           /\ users[u].sui_wallet_connected /\ users[u].sui_wallet_address # 0 }

RECURSIVE InIdOrder(_)
InIdOrder(us) ==
  IF us = {} THEN << >>
  ELSE LET u == CHOOSE x \in us : \A y \in us : x <= y
       IN  << u >> \o InIdOrder(us \ {u})

RECURSIVE SumCampaignXp(_, _, _)
SumCampaignXp(us, c, raidIds) ==
  IF us = {} THEN 0
  ELSE LET u == CHOOSE x \in us : TRUE
       IN  SumAmounts(CampaignRows(u, c.id, raidIds)) + SumCampaignXp(us \ {u}, c, raidIds)

\* Campaign.calculateAllRewards over the qualifying users
CampaignCalculateAllRewards(c, raidIds) ==
  LET qualifying == getQualifyingUsers(c, raidIds)
      order == InIdOrder(qualifying)
      totalXp == SumCampaignXp(qualifying, c, raidIds)
  IN  IF c.tokenPerXp # 0
      THEN [ i \in DOMAIN order |->
               Reward(order[i], CampaignRows(order[i], c.id, raidIds),
                      SumAmounts(CampaignRows(order[i], c.id, raidIds)) * c.tokenPerXp, 1,
                      c.tokenType) ]
      ELSE IF c.totalBudget # 0
      THEN [ i \in DOMAIN order |->
               Reward(order[i], CampaignRows(order[i], c.id, raidIds),
                      SumAmounts(CampaignRows(order[i], c.id, raidIds)) * c.totalBudget,
                      totalXp, c.tokenType) ]
      ELSE << >>

\* ... the query and the user look-ups of getQualifyingUsers, and the rewards
Campaign_getQualifyingUsers(p) ==
  /\ pc[p] = "Campaign_getQualifyingUsers"
  /\ Goto(p, "endCampaign_completionMessage",
          [loc[p] EXCEPT !.rewards =
             CampaignCalculateAllRewards(loc[p].campaign, loc[p].raidIds)])
  /\ UNCHANGED << store, timers, front, sent, batches, clock, ops >>

\* The query of getQualifyingUsers answers with an error: the catch logs it
\* and returns [], and calculateAllRewards maps it to no reward
Campaign_getQualifyingUsers_error(p) ==
  /\ pc[p] = "Campaign_getQualifyingUsers"
  /\ Goto(p, "endCampaign_completionMessage", [loc[p] EXCEPT !.rewards = << >>])
  /\ UNCHANGED << store, timers, front, sent, batches, clock, ops >>

\* await sendCampaignCompletionMessage(...): a failed bot.sendMessage makes
\* endCampaign throw; otherwise distributeRewards is called if there are
\* rewards, and runs up to its first sendTokens
endCampaign_completionMessage(p) ==
  /\ pc[p] = "endCampaign_completionMessage"
  /\ \E delivered \in BOOLEAN :
       IF ~delivered
       THEN endCampaign_return(p, "end_error") /\ batches' = batches
       ELSE IF Len(loc[p].rewards) > 0
            THEN /\ batches' = Append(batches,
                       Batch("campaign", loc[p].campaign.id, loc[p].rewards))
                 /\ Goto(p, "distributeRewards_sendTokens",
                         [loc[p] EXCEPT !.idx = 1, !.batch = Len(batches) + 1])
            ELSE endCampaign_return(p, "campaign_ended") /\ batches' = batches
  /\ UNCHANGED << store, timers, front, sent, clock, ops >>

\* await endedCampaign.markRewardsDistributed()
endCampaign_markRewardsDistributed(p) ==
  /\ pc[p] = "endCampaign_markRewardsDistributed"
  /\ campaigns' = CampaignUpdated([loc[p].campaign EXCEPT !.rewardsDistributed = TRUE])
  /\ endCampaign_return(p, "campaign_ended")
  /\ UNCHANGED << raids, user_actions, xp_transactions, users, timers, front,
                  sent, batches, clock, ops >>

(* --------- setupScheduledTasks / checkForEndedCampaigns --------------- *)

RECURSIVE InOrder(_)
InOrder(ids) ==
  IF ids = {} THEN << >>
  ELSE LET c == CHOOSE x \in ids : \A y \in ids : x <= y
       IN  << c >> \o InOrder(ids \ {c})

\* The rows of  .eq('is_active', true).lt('end_date', now)
EndedCampaigns(now) ==
  { c \in DOMAIN campaigns : campaigns[c].is_active /\ campaigns[c].end_date < now }

\* The interval of setupScheduledTasks fires: checkForEndedCampaigns(bot) up
\* to the await of its select, whose filter holds new Date()
checkForEndedCampaigns(p) ==
  /\ pc[p] = "idle"
  /\ \A q \in Procs : q = p \/ FirstProc = p \/ pc[q] # "idle"
  /\ pc' = [pc EXCEPT ![p] = "checkForEndedCampaigns_select"]
  /\ loc' = [loc EXCEPT ![p] = [IdleLoc EXCEPT !.op = "checkForEndedCampaigns",
                                               !.sweep = TRUE, !.now = clock]]
  /\ res' = [res EXCEPT ![p] = "pending"]
  /\ UNCHANGED << store, timers, front, sent, batches, clock, ops >>

\* The select answers; for (const item of data) await endCampaign(item.id,
\* bot), the first of them up to its Campaign.findById
checkForEndedCampaigns_select(p) ==
  /\ pc[p] = "checkForEndedCampaigns_select"
  /\ LET data == InOrder(EndedCampaigns(loc[p].now))
     IN  IF data = << >>
         THEN Finish(p, "swept")
         ELSE Goto(p, "endCampaign_findById",
                   [IdleLoc EXCEPT !.op = "endCampaign", !.campaignId = Head(data),
                                   !.sweep = TRUE, !.queue = Tail(data)])
  /\ UNCHANGED << store, timers, front, sent, batches, clock, ops >>

\* Time passes
Tick ==
  /\ clock < MaxClock
  /\ clock' = clock + 1
  /\ UNCHANGED << store, timers, front, sent, batches, ops, pc, loc, res >>

(* ------------------- suiService.distributeRewards --------------------- *)

\* suiService.distributeRewards, one turn of its loop: the validation of the
\* reward, then sendTokens, which succeeds or throws
RewardDataMissing(w) == w.walletAddress = 0 \/ w.num = 0 \/ w.tokenType = 0

\* A loop that a throw leaves (the catch around the for, not inside it)
AfterRewardAbort(l, threw) ==
  IF threw \/ l.idx = Len(l.rewards) THEN "distributeRewards_save"
                                     ELSE "distributeRewards_sendTokens"

\* Where the loop goes after a reward: the try/catch is inside the for, so
\* a throw is recorded and the loop goes on like after a success.
AfterReward(l, threw) ==
  IF l.idx = Len(l.rewards) THEN "distributeRewards_save"
                            ELSE "distributeRewards_sendTokens"

distributeRewards_sendTokens(p) ==
  /\ pc[p] = "distributeRewards_sendTokens"
  /\ LET l == loc[p]
         w == l.rewards[l.idx]
     IN  \E transferred \in BOOLEAN :
           IF RewardDataMissing(w)
           THEN /\ transferred
                /\ sent' = sent
                /\ Goto(p, AfterReward(l, TRUE), [l EXCEPT !.idx = l.idx + 1,
                                           !.failed = Append(l.failed, w.telegramId)])
           ELSE IF transferred
                THEN /\ sent' = Append(sent,
                           [ source_type |-> IF l.op = "endCampaign" THEN "campaign" ELSE "raid",
                             source_id |-> IF l.op = "endCampaign" THEN l.campaign.id
                                                                   ELSE l.raid.id,
                             batch |-> l.batch, telegramId |-> w.telegramId,
                             rows |-> w.rows,
                             num |-> w.num, den |-> w.den ])
                     /\ Goto(p, AfterReward(l, FALSE),
                             [l EXCEPT !.idx = l.idx + 1,
                                                !.called = Append(l.called, w.telegramId),
                                                !.successful = Append(l.successful, w.telegramId)])
                ELSE /\ sent' = sent
                     /\ Goto(p, AfterReward(l, TRUE),
                             [l EXCEPT !.idx = l.idx + 1,
                                                !.called = Append(l.called, w.telegramId),
                                                !.failed = Append(l.failed, w.telegramId)])
  /\ UNCHANGED << store, timers, front, batches, clock, ops >>

\* raidService.distributeRewards after the batch: raid.rewardsDistributed =
\* true; await raid.save(); then the notices, whose failures are swallowed
distributeRewards_save(p) ==
  /\ pc[p] = "distributeRewards_save"
  /\ IF loc[p].op = "endCampaign"
     THEN LET c == [loc[p].campaign EXCEPT !.rewardsDistributed = TRUE]
          IN  /\ campaigns' = CampaignUpdated(c)
              /\ raids' = raids
              /\ Goto(p, "endCampaign_markRewardsDistributed",
                      [loc[p] EXCEPT !.campaign = c])
     ELSE /\ raids' = RaidUpdated([loc[p].raid EXCEPT !.rewardsDistributed = TRUE])
          /\ campaigns' = campaigns
          /\ Finish(p, "ended")
  /\ batches' = [batches EXCEPT ![loc[p].batch].done = TRUE]
  /\ UNCHANGED << user_actions, xp_transactions, users, timers, front,
                  sent, clock, ops >>

(* ------------------------ userService.addUserXp ----------------------- *)

\* addUserXp(telegramId, xpAmount, source, sourceId) up to
\* await getUserById(telegramId)
addUserXp(p, u, amount, src) ==
  /\ Start(p, "addUserXp_getUserById",
           [IdleLoc EXCEPT !.op = "addUserXp", !.user = u, !.xpEarned = amount,
                           !.sourceType = src.type, !.sourceId = src.id])
  /\ UNCHANGED << store, timers, front, sent, batches, clock >>

\* user = await getUserById(telegramId); null returns null; otherwise
\* newTotalXp = (user.total_xp || 0) + xpAmount
addUserXp_getUserById(p) ==
  /\ pc[p] = "addUserXp_getUserById"
  /\ IF loc[p].user \notin DOMAIN users
     THEN Finish(p, "user_not_found")
     ELSE Goto(p, "addUserXp_update",
               [loc[p] EXCEPT !.userRow = users[loc[p].user],
                              !.totalXp = users[loc[p].user].total_xp + loc[p].xpEarned])
  /\ UNCHANGED << store, timers, front, sent, batches, clock, ops >>

\* update({ total_xp: newTotalXp, last_xp_earned_at }).eq('telegram_id', ...)
addUserXp_update(p) ==
  /\ pc[p] = "addUserXp_update"
  /\ users' = [users EXCEPT ![loc[p].user].total_xp = loc[p].totalXp]
  /\ Goto(p, "addUserXp_insert", loc[p])
  /\ UNCHANGED << raids, campaigns, user_actions, xp_transactions, timers, front,
                  sent, batches, clock, ops >>

\* The update answers with an error (the users table of createUsersTable has
\* no last_xp_earned_at column, for one): return user, nothing is written
addUserXp_update_error(p) ==
  /\ pc[p] = "addUserXp_update"
  /\ Finish(p, "update_failed")
  /\ UNCHANGED << store, timers, front, sent, batches, clock, ops >>

\* insert into xp_transactions; return updatedUser
addUserXp_insert(p) ==
  /\ pc[p] = "addUserXp_insert"
  /\ LET l == loc[p]
     IN  xp_transactions' = Append(xp_transactions,
                [ user_id |-> l.user, amount |-> l.xpEarned,
                  source_type |-> l.sourceType, source_id |-> l.sourceId,
                  previous_total |-> l.userRow.total_xp,
                  new_total |-> l.totalXp ])
  /\ Finish(p, "xp_added")
  /\ UNCHANGED << raids, campaigns, user_actions, users, timers, front,
                  sent, batches, clock, ops >>

\* The insert answers with an error: logger.warn, "continue even if logging
\* fails", return updatedUser
addUserXp_insert_error(p) ==
  /\ pc[p] = "addUserXp_insert"
  /\ Finish(p, "xp_added")
  /\ UNCHANGED << store, timers, front, sent, batches, clock, ops >>

(* --------------- handleWalletCallback / User.connectSuiWallet --------- *)

\* The address suiService.generateSuiWallet returns
GeneratedWallet == 9

\* handleWalletCallback(bot, query) with action 'generate', up to
\* await User.findByTelegramId(from.id)
handleWalletCallback(p, u) ==
  /\ Start(p, "handleWalletCallback_findUser",
           [IdleLoc EXCEPT !.op = "handleWalletCallback", !.user = u])
  /\ UNCHANGED << store, timers, front, sent, batches, clock >>

\* user = await User.findByTelegramId(from.id); then the processing message
\* and generateSuiWallet (no store access), then user.connectSuiWallet sets
\* the wallet fields of the instance and runs save up to its update
handleWalletCallback_findUser(p) ==
  /\ pc[p] = "handleWalletCallback_findUser"
  /\ IF loc[p].user \notin DOMAIN users
     THEN Finish(p, "user_not_found")
     ELSE Goto(p, "User_connectSuiWallet_save",
               [loc[p] EXCEPT !.userRow =
                  [users[loc[p].user] EXCEPT !.sui_wallet_address = GeneratedWallet,
                                             !.sui_wallet_connected = TRUE]])
  /\ UNCHANGED << store, timers, front, sent, batches, clock, ops >>

\* User.save: update(userData).eq('telegram_id', ...), every column from the
\* instance, total_xp included
User_connectSuiWallet_save(p) ==
  /\ pc[p] = "User_connectSuiWallet_save"
  /\ users' = [users EXCEPT ![loc[p].user] = loc[p].userRow]
  /\ Finish(p, "wallet_connected")
  /\ UNCHANGED << raids, campaigns, user_actions, xp_transactions, timers, front,
                  sent, batches, clock, ops >>

(* ------------- User.getXpForSource / getUserXpForSource --------------- *)

\* user.getXpForSource(sourceType, sourceId) up to its select
getXpForSource(p, u, src) ==
  /\ Start(p, "getXpForSource_select",
           [IdleLoc EXCEPT !.op = "getXpForSource", !.user = u,
                           !.sourceType = src.type, !.sourceId = src.id])
  /\ UNCHANGED << store, timers, front, sent, batches, clock >>

\* select('amount').eq('user_id').eq('source_type').eq('source_id'), then
\* data.reduce((sum, record) => sum + record.amount, 0)
getXpForSource_select(p) ==
  /\ pc[p] = "getXpForSource_select"
  /\ Goto(p, "getXpForSource_return",
          [loc[p] EXCEPT !.totalXp =
             SumAmounts(LedgerRows(loc[p].user, loc[p].sourceType, loc[p].sourceId))])
  /\ UNCHANGED << store, timers, front, sent, batches, clock, ops >>

\* The select answers with an error: the catch logs it and returns 0
getXpForSource_select_error(p) ==
  /\ pc[p] = "getXpForSource_select"
  /\ Goto(p, "getXpForSource_return", [loc[p] EXCEPT !.totalXp = 0])
  /\ UNCHANGED << store, timers, front, sent, batches, clock, ops >>

\* The caller has the sum
getXpForSource_return(p) ==
  /\ pc[p] = "getXpForSource_return"
  /\ Finish(p, "xp_read")
  /\ UNCHANGED << store, timers, front, sent, batches, clock, ops >>

\* userService.getUserXpForSource(telegramId, sourceType, sourceId) up to
\* its select
getUserXpForSource(p, u, src) ==
  /\ Start(p, "getUserXpForSource_select",
           [IdleLoc EXCEPT !.op = "getUserXpForSource", !.user = u,
                           !.sourceType = src.type, !.sourceId = src.id])
  /\ UNCHANGED << store, timers, front, sent, batches, clock >>

\* The same select and reduce
getUserXpForSource_select(p) ==
  /\ pc[p] = "getUserXpForSource_select"
  /\ Goto(p, "getUserXpForSource_return",
          [loc[p] EXCEPT !.totalXp =
             SumAmounts(LedgerRows(loc[p].user, loc[p].sourceType, loc[p].sourceId))])
  /\ UNCHANGED << store, timers, front, sent, batches, clock, ops >>

\* return totalXp
getUserXpForSource_return(p) ==
  /\ pc[p] = "getUserXpForSource_return"
  /\ Finish(p, "xp_read")
  /\ UNCHANGED << store, timers, front, sent, batches, clock, ops >>

(* ------------------------ Campaign.getUserXp -------------------------- *)

\* The rows the filter of getUserXp keeps:  user_id = u  and
\* or(source_type.eq.campaign, and(source_type.eq.raid, source_id.in.(ids)))
GetUserXpRows(u, raidIds) ==
  { i \in DOMAIN xp_transactions :
      /\ xp_transactions[i].user_id = u
      /\ \/ xp_transactions[i].source_type = "campaign"
         \/ /\ xp_transactions[i].source_type = "raid"
            /\ xp_transactions[i].source_id \in raidIds }

\* campaign.getUserXp(telegramId) on a loaded campaign, up to
\* await this.getRaidIdsQuery()
Campaign_getUserXp(p, c, u) ==
  /\ c \in DOMAIN campaigns
  /\ Start(p, "Campaign_getUserXp_raidIds",
           [IdleLoc EXCEPT !.op = "getUserXp", !.user = u, !.campaignId = c,
                           !.campaign = CampaignCtor(c, campaigns[c])])
  /\ UNCHANGED << store, timers, front, sent, batches, clock >>

\* the ids of Raid.findByCampaignId(this.id), joined into the filter
Campaign_getUserXp_raidIds(p) ==
  /\ pc[p] = "Campaign_getUserXp_raidIds"
  /\ Goto(p, "Campaign_getUserXp_select",
          [loc[p] EXCEPT !.raidIds = findByCampaignId(loc[p].campaign.id)])
  /\ UNCHANGED << store, timers, front, sent, batches, clock, ops >>

\* The select and the reduce.  With no raid the filter reads
\* source_id.in.(): the store either takes the empty list (no raid row
\* matches) or rejects the filter, and the error gives 0.
Campaign_getUserXp_select(p) ==
  /\ pc[p] = "Campaign_getUserXp_select"
  /\ \E accepted \in BOOLEAN :
       /\ loc[p].raidIds # {} => accepted
       /\ Goto(p, "Campaign_getUserXp_return",
               [loc[p] EXCEPT !.totalXp =
                  IF accepted
                  THEN SumAmounts(GetUserXpRows(loc[p].user, loc[p].raidIds))
                  ELSE 0])
  /\ UNCHANGED << store, timers, front, sent, batches, clock, ops >>

\* The select answers with an error: the catch logs it and returns 0
Campaign_getUserXp_select_error(p) ==
  /\ pc[p] = "Campaign_getUserXp_select"
  /\ Goto(p, "Campaign_getUserXp_return", [loc[p] EXCEPT !.totalXp = 0])
  /\ UNCHANGED << store, timers, front, sent, batches, clock, ops >>

\* The caller has the sum
Campaign_getUserXp_return(p) ==
  /\ pc[p] = "Campaign_getUserXp_return"
  /\ Finish(p, "xp_read")
  /\ UNCHANGED << store, timers, front, sent, batches, clock, ops >>

(* ------------- /dropraid and the raid configuration callbacks --------- *)

\* global.tempRaidConfig[chatId] is undefined
NoConfig ==
  [ tweetUrl |-> 0, adminId |-> 0, stage |-> "none", mode |-> "none",
    tokenType |-> "none", tokenSymbol |-> "none", rewardModel |-> "none" ]

\* A call that returns r without an await
Call(p, r) ==
  /\ pc[p] = "idle"
  /\ \A q \in Procs : q = p \/ FirstProc = p \/ pc[q] # "idle"
  /\ ops > 0
  /\ ops' = ops - 1
  /\ res' = [res EXCEPT ![p] = r]
  /\ UNCHANGED << pc, loc >>

\* handleDropRaidCommand(msg) up to await isUserAdminInGroup(userId, chatId)
handleDropRaidCommand(p, chat, u, text) ==
  /\ Start(p, "handleDropRaidCommand_isAdmin",
           [IdleLoc EXCEPT !.op = "handleDropRaidCommand", !.chat = chat,
                           !.user = u, !.text = text])
  /\ UNCHANGED << store, timers, front, sent, batches, clock >>

\* isAdmin = await isUserAdminInGroup(...); the three refusals, each the
\* handler's last message; then startRaidConfiguration up to its
\* await bot.sendMessage
handleDropRaidCommand_isAdmin(p) ==
  /\ pc[p] = "handleDropRaidCommand_isAdmin"
  /\ LET l == loc[p]
     IN  IF l.user \notin ChatAdmins
         THEN Finish(p, "admins_only") /\ UNCHANGED tempRaidConfig
         ELSE IF l.text = "none"
         THEN Finish(p, "no_url") /\ UNCHANGED tempRaidConfig
         ELSE IF l.text # "tweet"
         THEN Finish(p, "invalid_url") /\ UNCHANGED tempRaidConfig
         ELSE /\ tempRaidConfig' =
                   [tempRaidConfig EXCEPT ![l.chat] =
                      [NoConfig EXCEPT !.tweetUrl = 1, !.adminId = l.user,
                                       !.stage = "mode"]]
              /\ Goto(p, "startRaidConfiguration_send", l)
  /\ UNCHANGED << store, timers, oauthStates, twitter_accounts,
                  sent, batches, clock, ops >>

\* await bot.sendMessage(chatId, 'Please choose the reward mode')
startRaidConfiguration_send(p) ==
  /\ pc[p] = "startRaidConfiguration_send"
  /\ Finish(p, "asked_mode")
  /\ UNCHANGED << store, timers, front, sent, batches, clock, ops >>

\* The same handler without the check of raidConfig.adminId
handleRaidModeCallback_noAdminCheck(p, chat, u, mode) ==
  LET cfg == tempRaidConfig[chat]
  IN  /\ Start(p, "handleRaidModeCallback_send",
               [IdleLoc EXCEPT !.op = "handleRaidModeCallback", !.chat = chat,
                               !.user = u,
                               !.answer = IF cfg = NoConfig THEN "config_not_found"
                                          ELSE "asked_token"])
      /\ tempRaidConfig' =
           IF cfg # NoConfig
           THEN [tempRaidConfig EXCEPT ![chat].mode = mode, ![chat].stage = "token"]
           ELSE tempRaidConfig
      /\ UNCHANGED << store, timers, oauthStates, twitter_accounts,
                      sent, batches, clock >>

\* handleRaidModeCallback(bot, query) up to its first await: the config of
\* the chat is looked up, the caller is compared with its adminId, and the
\* mode and the stage are set
handleRaidModeCallback(p, chat, u, mode) ==
  LET cfg == tempRaidConfig[chat]
  IN  /\ Start(p, "handleRaidModeCallback_send",
               [IdleLoc EXCEPT !.op = "handleRaidModeCallback", !.chat = chat,
                               !.user = u,
                               !.answer = IF cfg = NoConfig THEN "config_not_found"
                                          ELSE IF cfg.adminId # u THEN "only_admin"
                                          ELSE "asked_token"])
      /\ tempRaidConfig' =
           IF cfg # NoConfig /\ cfg.adminId = u
           THEN [tempRaidConfig EXCEPT ![chat].mode = mode, ![chat].stage = "token"]
           ELSE tempRaidConfig
      /\ UNCHANGED << store, timers, oauthStates, twitter_accounts,
                      sent, batches, clock >>

\* the await of the message the handler answers with (sendMessage,
\* answerCallbackQuery or editMessageText)
handleRaidModeCallback_send(p) ==
  /\ pc[p] = "handleRaidModeCallback_send"
  /\ Finish(p, loc[p].answer)
  /\ UNCHANGED << store, timers, front, sent, batches, clock, ops >>

\* handleTokenTypeCallback(bot, query) up to its first await
handleTokenTypeCallback(p, chat, u, tokenType) ==
  LET cfg == tempRaidConfig[chat]
  IN  /\ Start(p, "handleTokenTypeCallback_send",
               [IdleLoc EXCEPT !.op = "handleTokenTypeCallback", !.chat = chat,
                               !.user = u,
                               !.answer = IF cfg = NoConfig THEN "config_not_found"
                                          ELSE IF cfg.adminId # u THEN "only_admin"
                                          ELSE IF tokenType = "sui" THEN "asked_reward_model"
                                          ELSE "asked_custom_token"])
      /\ tempRaidConfig' =
           IF cfg # NoConfig /\ cfg.adminId = u
           THEN IF tokenType = "sui"
                THEN [tempRaidConfig EXCEPT ![chat].tokenType = SUI_TYPE,
                                            ![chat].tokenSymbol = "SUI",
                                            ![chat].stage = "reward_model"]
                ELSE [tempRaidConfig EXCEPT ![chat].stage = "custom_token"]
           ELSE tempRaidConfig
      /\ UNCHANGED << store, timers, oauthStates, twitter_accounts,
                      sent, batches, clock >>

handleTokenTypeCallback_send(p) ==
  /\ pc[p] = "handleTokenTypeCallback_send"
  /\ Finish(p, loc[p].answer)
  /\ UNCHANGED << store, timers, front, sent, batches, clock, ops >>

\* handleRewardModelCallback(bot, query) up to its first await
handleRewardModelCallback(p, chat, u, model) ==
  LET cfg == tempRaidConfig[chat]
  IN  /\ Start(p, "handleRewardModelCallback_send",
               [IdleLoc EXCEPT !.op = "handleRewardModelCallback", !.chat = chat,
                               !.user = u,
                               !.answer = IF cfg = NoConfig THEN "config_not_found"
                                          ELSE IF cfg.adminId # u THEN "only_admin"
                                          ELSE IF model = "fixed" THEN "asked_token_per_xp"
                                          ELSE "asked_total_reward"])
      /\ tempRaidConfig' =
           IF cfg # NoConfig /\ cfg.adminId = u
           THEN [tempRaidConfig EXCEPT
                   ![chat].rewardModel = model,
                   ![chat].stage = IF model = "fixed" THEN "token_per_xp"
                                   ELSE "total_reward"]
           ELSE tempRaidConfig
      /\ UNCHANGED << store, timers, oauthStates, twitter_accounts,
                      sent, batches, clock >>

handleRewardModelCallback_send(p) ==
  /\ pc[p] = "handleRewardModelCallback_send"
  /\ Finish(p, loc[p].answer)
  /\ UNCHANGED << store, timers, front, sent, batches, clock, ops >>

(* ------------- generateTwitterAuthUrl / handleTwitterCallback --------- *)

\* A state value (status "unissued": randomBytes has not drawn it yet;
\* "stored": oauthStates[state] is defined; "deleted": it was deleted, and a
\* value of 20 random bytes is not drawn twice)
NoState == [ telegramId |-> 0, timestamp |-> 0, status |-> "unissued" ]

\* Object.keys(oauthStates).forEach: the states older than an hour are deleted
CleanedStates(states, now) ==
  [ s \in DOMAIN states |->
      IF states[s].status = "stored" /\ now - states[s].timestamp > OAuthStateLifetime
      THEN [states[s] EXCEPT !.status = "deleted"]
      ELSE states[s] ]

\* generateTwitterAuthUrl(telegramId): the state is drawn and stored with
\* Date.now(), the link is built, the old states are cleaned up (no await)
generateTwitterAuthUrl(p, u) ==
  /\ \E s \in StateValues :
       /\ oauthStates[s].status = "unissued"
       /\ \A t \in StateValues : t < s => oauthStates[t].status # "unissued"
       /\ oauthStates' =
            CleanedStates([oauthStates EXCEPT ![s] =
                             [ telegramId |-> u, timestamp |-> clock,
                               status |-> "stored" ]], clock)
  /\ Call(p, "auth_url")
  /\ UNCHANGED << store, timers, tempRaidConfig, twitter_accounts,
                  sent, batches, clock >>

\* handleTwitterCallback(code, state) up to await client.loginWithOAuth2:
\* a state that is not stored throws; a stored one is read and deleted
handleTwitterCallback(p, s) ==
  IF oauthStates[s].status # "stored"
  THEN /\ Call(p, "auth_failed")
       /\ UNCHANGED << store, timers, front, sent, batches, clock >>
  ELSE /\ Start(p, "handleTwitterCallback_login",
                [IdleLoc EXCEPT !.op = "handleTwitterCallback", !.state = s,
                                !.user = oauthStates[s].telegramId])
       /\ oauthStates' = [oauthStates EXCEPT ![s].status = "deleted"]
       /\ UNCHANGED << store, timers, tempRaidConfig, twitter_accounts,
                       sent, batches, clock >>

\* await client.loginWithOAuth2({ code, ... }): Twitter accepts the code or
\* the call throws
handleTwitterCallback_login(p, accepted) ==
  /\ pc[p] = "handleTwitterCallback_login"
  /\ IF accepted
     THEN Goto(p, "handleTwitterCallback_me", loc[p])
     ELSE Finish(p, "auth_failed")
  /\ UNCHANGED << store, timers, front, sent, batches, clock, ops >>

\* { data: twitterUser } = await userClient.v2.me(...); then
\* linkTwitterAccount up to its update
handleTwitterCallback_me(p, twitterId) ==
  /\ pc[p] = "handleTwitterCallback_me"
  /\ Goto(p, "linkTwitterAccount_update", [loc[p] EXCEPT !.twitterId = twitterId])
  /\ UNCHANGED << store, timers, front, sent, batches, clock, ops >>

\* supabase.from('users').update({ twitter_id, ..., is_verified: true })
\*   .eq('telegram_id', telegramId)
linkTwitterAccount_update(p) ==
  /\ pc[p] = "linkTwitterAccount_update"
  /\ LET l == loc[p]
     IN  users' = IF l.user \in DOMAIN users
                  THEN [users EXCEPT ![l.user].twitter_id = l.twitterId,
                                     ![l.user].twitter_token = l.twitterId,
                                     ![l.user].twitter_connected = TRUE,
                                     ![l.user].is_verified = TRUE]
                  ELSE users
  /\ Goto(p, "handleTwitterCallback_upsert", loc[p])
  /\ UNCHANGED << raids, campaigns, user_actions, xp_transactions, timers, front,
                  sent, batches, clock, ops >>

\* supabase.from('twitter_accounts').upsert({ twitter_id, ..., telegram_id })
handleTwitterCallback_upsert(p) ==
  /\ pc[p] = "handleTwitterCallback_upsert"
  /\ twitter_accounts' = [twitter_accounts EXCEPT ![loc[p].twitterId] = loc[p].user]
  /\ Finish(p, "linked")
  /\ UNCHANGED << store, timers, tempRaidConfig, oauthStates,
                  sent, batches, clock, ops >>

\* The bot process starts with no pending configuration and no state, and
\* the table twitter_accounts empty
InitFront ==
  /\ tempRaidConfig = [ c \in Chats |-> NoConfig ]
  /\ oauthStates = [ s \in StateValues |-> NoState ]
  /\ twitter_accounts = [ t \in TwitterAccounts |-> 0 ]

(* --------------------------- specification ---------------------------- *)

InitStore ==
  /\ raids = << >>
  /\ campaigns = << >>
  /\ user_actions = << >>
  /\ xp_transactions = << >>
  /\ users = [ u \in Users |-> [ total_xp |-> 0,
                                 is_verified |-> UserProfiles[u].is_verified,
                                 twitter_id |-> IF UserProfiles[u].is_verified THEN u ELSE 0,
                                 twitter_token |-> IF UserProfiles[u].is_verified THEN u ELSE 0,
                                 twitter_connected |-> UserProfiles[u].is_verified,
                                 sui_wallet_connected |-> UserProfiles[u].sui_wallet_connected,
                                 sui_wallet_address |-> UserProfiles[u].sui_wallet_address ] ]
  /\ timers = {}
  /\ InitFront
  /\ sent = << >>
  /\ batches = << >>
  /\ clock = 1
  /\ pc = [ p \in Procs |-> "idle" ]
  /\ loc = [ p \in Procs |-> IdleLoc ]
  /\ res = [ p \in Procs |-> "none" ]

Init == InitStore /\ ops = MaxOps

Next ==
  \E p \in Procs :
    \/ \E cfg \in RaidConfigs : createRaid(p, cfg)
    \/ createRaid_save(p)
    \/ createRaid_announce(p)
    \/ createRaid_saveMessage(p)
    \/ createRaid_saveEnd(p)
    \/ \E r \in 1..MaxRaids, u \in Users, a \in ActionInputs : recordUserAction(p, r, u, a)
    \/ recordUserAction_findRaid(p)
    \/ recordUserAction_findUser(p)
    \/ Raid_recordUserAction_existing(p)
    \/ Raid_recordUserAction_hasLiked(p)
    \/ Raid_recordUserAction_insert(p)
    \/ Raid_recordUserAction_findUser(p)
    \/ User_addXp_insert(p)
    \/ User_addXp_save(p)
    \/ Raid_recordUserAction_statistics(p)
    \/ Raid_recordUserAction_save(p)
    \/ recordUserAction_statistics(p)
    \/ recordUserAction_save(p)
    \/ \E r \in DOMAIN raids : scheduleRaidEnd(p, r)
    \/ \E r \in 1..MaxRaids, cancelled \in BOOLEAN : endRaid(p, r, cancelled)
    \/ endRaid_findRaid(p)
    \/ Raid_end_save(p)
    \/ endRaid_statistics(p)
    \/ endRaid_statisticsSave(p)
    \/ endRaid_calculateAllRewards(p)
    \/ endRaid_completionMessage(p)
    \/ distributeRewards_sendTokens(p)
    \/ distributeRewards_save(p)

Spec == Init /\ [][Next]_vars

(* ----------------------- campaign specification ----------------------- *)

CampaignInit == InitStore /\ ops = MaxCampaignOps

\* Campaigns and raids are set up and actions recorded while no other call
\* runs; the terminations overlap each other and everything else.
AllIdle == \A q \in Procs : pc[q] = "idle"

CampaignNext ==
  \E p \in Procs :
    \/ AllIdle /\ \E cfg \in CampaignConfigs : createCampaign(p, cfg)
    \/ createCampaign_save(p)
    \/ AllIdle /\ \E cfg \in CampaignRaidConfigs : createRaid(p, cfg)
    \/ createRaid_save(p)
    \/ createRaid_announce(p)
    \/ createRaid_saveMessage(p)
    \/ createRaid_saveEnd(p)
    \/ AllIdle /\ \E r \in 1..MaxRaids, u \in CampaignUsers, a \in CampaignActionInputs :
                    recordUserAction(p, r, u, a)
    \/ recordUserAction_findRaid(p)
    \/ recordUserAction_findUser(p)
    \/ Raid_recordUserAction_existing(p)
    \/ Raid_recordUserAction_hasLiked(p)
    \/ Raid_recordUserAction_insert(p)
    \/ Raid_recordUserAction_findUser(p)
    \/ User_addXp_insert(p)
    \/ User_addXp_save(p)
    \/ Raid_recordUserAction_statistics(p)
    \/ Raid_recordUserAction_save(p)
    \/ recordUserAction_statistics(p)
    \/ recordUserAction_save(p)
    \/ \E r \in DOMAIN raids : scheduleRaidEnd(p, r)
    \/ endRaid_findRaid(p)
    \/ Raid_end_save(p)
    \/ endRaid_statistics(p)
    \/ endRaid_statisticsSave(p)
    \/ endRaid_calculateAllRewards(p)
    \/ endRaid_completionMessage(p)
    \/ AllIdle /\ \E c \in 1..MaxCampaigns, r \in 1..MaxRaids : addRaid(p, c, r)
    \/ Campaign_addRaid_save(p)
    \/ \E c \in 1..MaxCampaigns, cancelled \in BOOLEAN : endCampaign(p, c, cancelled)
    \/ endCampaign_findById(p)
    \/ Campaign_end_save(p)
    \/ Campaign_getRaidIdsQuery(p)
    \/ Campaign_getQualifyingUsers(p)
    \/ endCampaign_completionMessage(p)
    \/ distributeRewards_sendTokens(p)
    \/ distributeRewards_save(p)
    \/ endCampaign_markRewardsDistributed(p)

CampaignSpec == CampaignInit /\ [][CampaignNext]_vars

(* ------------------------- ledger specification ---------------------- *)

\* The raids row createRaid leaves behind for a configuration, started at
\* time start (its three saves: insert, message id, end time)
CreatedRaid(id, cfg, start) ==
  LET data == [ RaidSaveData([NoRaid EXCEPT
                     !.targetLikes = cfg.targetLikes,
                     !.targetComments = cfg.targetComments,
                     !.totalReward = cfg.totalReward,
                     !.tokenPerXp = cfg.tokenPerXp,
                     !.tokenType = cfg.tokenType,
                     !.thresholdXp = cfg.thresholdXp,
                     !.campaignId = cfg.campaignId,
                     !.requireVerification = cfg.requireVerification,
                     !.tweetUrl = cfg.tweetUrl,
                     !.adminId = cfg.adminId,
                     !.chatId = cfg.chatId], FALSE)
                  EXCEPT !.start_time = start, !.is_active = TRUE,
                         !.status = ACTIVE, !.duration = DefaultDuration ]
      raid == RaidCtor(id, data)
  IN  RaidSaveData([raid EXCEPT !.endTime = raid.startTime + raid.duration], FALSE)

\* The campaigns row createCampaign leaves behind for a configuration
CreatedCampaign(cfg) ==
  CampaignSaveData(CampaignCtor(0,
     [ start_date |-> 1, end_date |-> cfg.endDate,
       is_active |-> TRUE, status |-> ACTIVE, token_type |-> cfg.tokenType,
       total_budget |-> cfg.totalBudget, token_per_xp |-> cfg.tokenPerXp,
       threshold_xp |-> cfg.thresholdXp, rewards_distributed |-> FALSE ]))

\* The store the ledger operations start from: two active campaigns, an
\* active raid of campaign 1 and a second active raid that belongs to
\* campaign 1 or to none, the users, and an empty ledger.
LedgerInit ==
  /\ \E c2 \in {0, 1} :
       raids = << CreatedRaid(1, [BaseConfig EXCEPT !.totalReward = 100, !.tokenType = 1,
                                                   !.campaignId = 1], 1),
                  CreatedRaid(2, [BaseConfig EXCEPT !.totalReward = 100, !.tokenType = 1,
                                                   !.campaignId = c2], 2) >>
  /\ campaigns = << CreatedCampaign([ totalBudget |-> 100, tokenPerXp |-> 0,
                                      tokenType |-> 1, thresholdXp |-> 10,
                                      endDate |-> CampaignEndDate ]),
                    CreatedCampaign([ totalBudget |-> 0, tokenPerXp |-> 2,
                                      tokenType |-> 1, thresholdXp |-> 10,
                                      endDate |-> CampaignEndDate ]) >>
  /\ user_actions = << >>
  /\ xp_transactions = << >>
  /\ users = [ u \in Users |-> [ total_xp |-> 0,
                                 is_verified |-> UserProfiles[u].is_verified,
                                 twitter_id |-> IF UserProfiles[u].is_verified THEN u ELSE 0,
                                 twitter_token |-> IF UserProfiles[u].is_verified THEN u ELSE 0,
                                 twitter_connected |-> UserProfiles[u].is_verified,
                                 sui_wallet_connected |-> UserProfiles[u].sui_wallet_connected,
                                 sui_wallet_address |-> UserProfiles[u].sui_wallet_address ] ]
  /\ timers = {1, 2}
  /\ InitFront
  /\ sent = << >>
  /\ batches = << >>
  /\ clock = 3
  /\ ops = MaxLedgerOps
  /\ pc = [ p \in Procs |-> "idle" ]
  /\ loc = [ p \in Procs |-> IdleLoc ]
  /\ res = [ p \in Procs |-> "none" ]

\* Credits, the generation of a wallet and the reads of XP totals, in any
\* interleaving; the store answers every request.
LedgerNext ==
  \E p \in Procs :
    \/ \E u \in LedgerUsers, amount \in XpAmounts, src \in XpSources :
         addUserXp(p, u, amount, src)
    \/ addUserXp_getUserById(p)
    \/ addUserXp_update(p)
    \/ addUserXp_insert(p)
    \/ \E u \in ReadUsers, a \in LedgerActionInputs : recordUserAction(p, 1, u, a)
    \/ recordUserAction_findRaid(p)
    \/ recordUserAction_findUser(p)
    \/ Raid_recordUserAction_existing(p)
    \/ Raid_recordUserAction_insert(p)
    \/ Raid_recordUserAction_findUser(p)
    \/ User_addXp_insert(p)
    \/ User_addXp_save(p)
    \/ Raid_recordUserAction_statistics(p)
    \/ Raid_recordUserAction_save(p)
    \/ recordUserAction_statistics(p)
    \/ recordUserAction_save(p)
    \/ \E u \in WalletUsers : handleWalletCallback(p, u)
    \/ handleWalletCallback_findUser(p)
    \/ User_connectSuiWallet_save(p)
    \/ \E u \in ReadUsers, src \in XpSources : getXpForSource(p, u, src)
    \/ getXpForSource_select(p)
    \/ getXpForSource_return(p)
    \/ \E u \in ReadUsers, src \in XpSources : getUserXpForSource(p, u, src)
    \/ getUserXpForSource_select(p)
    \/ getUserXpForSource_return(p)
    \/ \E c \in DOMAIN campaigns, u \in ReadUsers : Campaign_getUserXp(p, c, u)
    \/ Campaign_getUserXp_raidIds(p)
    \/ Campaign_getUserXp_select(p)
    \/ Campaign_getUserXp_return(p)

LedgerSpec == LedgerInit /\ [][LedgerNext]_vars

\* The same operations with the steps in which a request of a credit is
\* answered with an error.
FaultNext ==
  \/ LedgerNext
  \/ \E p \in Procs :
       \/ User_addXp_insert_error(p)
       \/ User_addXp_save_error(p)
       \/ addUserXp_update_error(p)
       \/ addUserXp_insert_error(p)

FaultSpec == LedgerInit /\ [][FaultNext]_vars

(* ------------------------- reward specification ---------------------- *)

\* The ledger entries of one user for one source, one per amount
Entries(u, stype, sid, amounts, before) ==
  [ i \in DOMAIN amounts |->
      LET RECURSIVE upTo(_)
          upTo(k) == IF k = 0 THEN before ELSE upTo(k - 1) + amounts[k]
      IN  [ user_id |-> u, amount |-> amounts[i], source_type |-> stype,
            source_id |-> sid, previous_total |-> upTo(i - 1),
            new_total |-> upTo(i) ] ]

\* The last new_total of a run of entries
TotalAfter(entries, before) ==
  IF entries = << >> THEN before ELSE entries[Len(entries)].new_total

\* The store a termination computes rewards from: raid 1, active, whose one
\* comment (user 4, without a like) met its target; campaign 1, active, to
\* which the raid belongs or not; the credits of users 1 to 3.
RewardInit ==
  /\ \E cfg \in RewardRaidConfigs :
       raids = << [ CreatedRaid(1, cfg, 1) EXCEPT !.actual_comments = 1 ] >>
  /\ \E cfg \in RewardCampaignConfigs : campaigns = << CreatedCampaign(cfg) >>
  /\ user_actions = << [ user_id |-> 4, raid_id |-> 1, action_type |-> "comment",
                         xp_earned |-> Penalised(XpComment) ] >>
  /\ \E a1 \in RaidXpChoices[1], a2 \in RaidXpChoices[2], a3 \in RaidXpChoices[3],
        c1 \in CampaignXpChoices :
       LET e4 == Entries(4, "raid", 1, << Penalised(XpComment) >>, 0)
           e1 == Entries(1, "raid", 1, a1, 0)
           e2 == Entries(2, "raid", 1, a2, 0)
           e3 == Entries(3, "raid", 1, a3, 0)
           k1 == Entries(1, "campaign", 1, c1, TotalAfter(e1, 0))
       IN  /\ xp_transactions = e4 \o e1 \o e2 \o e3 \o k1
           /\ users = [ u \in DOMAIN RewardUserProfiles |->
                  [ total_xp |-> CASE u = 1 -> TotalAfter(k1, TotalAfter(e1, 0))
                                   [] u = 2 -> TotalAfter(e2, 0)
                                   [] u = 3 -> TotalAfter(e3, 0)
                                   [] OTHER -> TotalAfter(e4, 0),
                    is_verified |-> RewardUserProfiles[u].is_verified,
                    twitter_id |-> IF RewardUserProfiles[u].is_verified THEN u ELSE 0,
                    twitter_token |-> IF RewardUserProfiles[u].is_verified THEN u ELSE 0,
                    twitter_connected |-> RewardUserProfiles[u].is_verified,
                    sui_wallet_connected |-> RewardUserProfiles[u].sui_wallet_connected,
                    sui_wallet_address |-> RewardUserProfiles[u].sui_wallet_address ] ]
  /\ timers = {1}
  /\ InitFront
  /\ sent = << >>
  /\ batches = << >>
  /\ clock = 2
  /\ ops = MaxRewardOps
  /\ pc = [ p \in Procs |-> "idle" ]
  /\ loc = [ p \in Procs |-> IdleLoc ]
  /\ res = [ p \in Procs |-> "none" ]

\* One termination, of the raid or of the campaign, with its settlement
RewardNext ==
  \E p \in Procs :
    \/ \E r \in DOMAIN raids : endRaid(p, r, FALSE)
    \/ endRaid_findRaid(p)
    \/ Raid_end_save(p)
    \/ endRaid_statistics(p)
    \/ endRaid_statisticsSave(p)
    \/ endRaid_calculateAllRewards(p)
    \/ endRaid_completionMessage(p)
    \/ \E c \in DOMAIN campaigns : endCampaign(p, c, FALSE)
    \/ endCampaign_findById(p)
    \/ Campaign_end_save(p)
    \/ Campaign_getRaidIdsQuery(p)
    \/ Campaign_getQualifyingUsers(p)
    \/ endCampaign_completionMessage(p)
    \/ distributeRewards_sendTokens(p)
    \/ distributeRewards_save(p)
    \/ endCampaign_markRewardsDistributed(p)

RewardSpec == RewardInit /\ [][RewardNext]_vars

(* ------------------------- claim specification ----------------------- *)

\* The reward of one user of the raid, read over a drawn ledger
ClaimNext ==
  \E p \in Procs :
    \/ \E r \in DOMAIN raids, u \in DOMAIN users : calculateUserReward(p, r, u)
    \/ calculateUserReward_findUser(p)
    \/ calculateUserReward_getXp(p)
    \/ calculateUserReward_getTotalXp(p)
    \/ calculateUserReward_return(p)

ClaimSpec == RewardInit /\ [][ClaimNext]_vars

(* ------------------------- sweep specification ----------------------- *)

\* The end dates of the two campaigns of the sweep specification
SweepEndDates == {1, 2}

\* Two active campaigns with a budget, each with one raid in which one user
\* with a wallet earned the XP of a comment made after a like.
SweepInit ==
  /\ \E e1 \in SweepEndDates, e2 \in SweepEndDates :
       campaigns =
         << [ CreatedCampaign([ totalBudget |-> 100, tokenPerXp |-> 0, tokenType |-> 1,
                                thresholdXp |-> 10, endDate |-> e1 + 1 ])
                EXCEPT !.start_date = 1 ],
            [ CreatedCampaign([ totalBudget |-> 100, tokenPerXp |-> 0, tokenType |-> 1,
                                thresholdXp |-> 10, endDate |-> e2 + 1 ])
                EXCEPT !.start_date = 1 ] >>
  /\ raids = << CreatedRaid(1, [BaseConfig EXCEPT !.campaignId = 1], 1),
                CreatedRaid(2, [BaseConfig EXCEPT !.campaignId = 2], 1) >>
  /\ user_actions = << >>
  /\ xp_transactions = Entries(1, "raid", 1, << XpComment >>, 0)
                          \o Entries(2, "raid", 2, << XpComment >>, 0)
  /\ users = [ u \in Users |-> [ total_xp |-> IF u \in {1, 2} THEN XpComment ELSE 0,
                                 is_verified |-> UserProfiles[u].is_verified,
                                 twitter_id |-> IF UserProfiles[u].is_verified THEN u ELSE 0,
                                 twitter_token |-> IF UserProfiles[u].is_verified THEN u ELSE 0,
                                 twitter_connected |-> UserProfiles[u].is_verified,
                                 sui_wallet_connected |-> UserProfiles[u].sui_wallet_connected,
                                 sui_wallet_address |-> UserProfiles[u].sui_wallet_address ] ]
  /\ timers = {1, 2}
  /\ InitFront
  /\ sent = << >>
  /\ batches = << >>
  /\ clock = 1
  /\ ops = MaxSweepOps
  /\ pc = [ p \in Procs |-> "idle" ]
  /\ loc = [ p \in Procs |-> IdleLoc ]
  /\ res = [ p \in Procs |-> "none" ]

\* The sweep of every hour, manual terminations, and the passing of time
SweepNext ==
  \/ Tick
  \/ \E p \in Procs :
       \/ checkForEndedCampaigns(p)
       \/ checkForEndedCampaigns_select(p)
       \/ \E c \in DOMAIN campaigns, cancelled \in BOOLEAN : endCampaign(p, c, cancelled)
       \/ endCampaign_findById(p)
       \/ Campaign_end_save(p)
       \/ Campaign_getRaidIdsQuery(p)
       \/ Campaign_getQualifyingUsers(p)
       \/ endCampaign_completionMessage(p)
       \/ distributeRewards_sendTokens(p)
       \/ distributeRewards_save(p)
       \/ endCampaign_markRewardsDistributed(p)

SweepSpec == SweepInit /\ [][SweepNext]_vars

\* A step of a running sweep or termination: the event loop runs every
\* continuation whose await has been answered.
SweepStep(p) ==
  \/ checkForEndedCampaigns_select(p)
  \/ endCampaign_findById(p)
  \/ Campaign_end_save(p)
  \/ Campaign_getRaidIdsQuery(p)
  \/ Campaign_getQualifyingUsers(p)
  \/ endCampaign_completionMessage(p)
  \/ distributeRewards_sendTokens(p)
  \/ distributeRewards_save(p)
  \/ endCampaign_markRewardsDistributed(p)

\* The interval of setupScheduledTasks fires every hour
SweepFires(p) == checkForEndedCampaigns(p)

\* The sweeps alone, while time passes
SweepLiveNext ==
  \/ Tick
  \/ \E p \in Procs : SweepFires(p) \/ SweepStep(p)

\* The sweeps with the scheduling of the program: continuations run, and the
\* interval keeps firing.
SweepLiveSpec ==
  /\ SweepInit
  /\ [][SweepLiveNext]_vars
  /\ \A p \in Procs : WF_vars(SweepStep(p)) /\ WF_vars(SweepFires(p))

(* ---------------------- raid timer specification --------------------- *)

\* A step of a createRaid call, of a recordUserAction call or of the
\* termination a timer started
RaidTimerStep(p) ==
  \/ createRaid_save(p)
  \/ createRaid_announce(p)
  \/ createRaid_saveMessage(p)
  \/ createRaid_saveEnd(p)
  \/ recordUserAction_findRaid(p)
  \/ recordUserAction_findUser(p)
  \/ Raid_recordUserAction_existing(p)
  \/ Raid_recordUserAction_hasLiked(p)
  \/ Raid_recordUserAction_insert(p)
  \/ Raid_recordUserAction_findUser(p)
  \/ User_addXp_insert(p)
  \/ User_addXp_save(p)
  \/ Raid_recordUserAction_statistics(p)
  \/ Raid_recordUserAction_save(p)
  \/ recordUserAction_statistics(p)
  \/ recordUserAction_save(p)
  \/ endRaid_findRaid(p)
  \/ Raid_end_save(p)
  \/ endRaid_statistics(p)
  \/ endRaid_statisticsSave(p)
  \/ endRaid_calculateAllRewards(p)
  \/ endRaid_completionMessage(p)
  \/ distributeRewards_sendTokens(p)
  \/ distributeRewards_save(p)

\* The timers that fire
RaidTimerFires(p) == \E r \in DOMAIN raids : scheduleRaidEnd(p, r)

RaidTimerNext ==
  \E p \in Procs :
    \/ \E cfg \in RaidConfigs : createRaid(p, cfg)
    \/ \E r \in 1..MaxRaids, u \in CampaignUsers, a \in CampaignActionInputs :
         recordUserAction(p, r, u, a)
    \/ RaidTimerStep(p)
    \/ RaidTimerFires(p)

RaidTimerInit == InitStore /\ ops = MaxTimerOps

\* A createRaid call and a comment in a process that keeps running: every
\* request is answered, so a suspended task takes its next step, and a
\* registered timer fires.
RaidTimerSpec ==
  /\ RaidTimerInit
  /\ [][RaidTimerNext]_vars
  /\ \A p \in Procs : WF_vars(RaidTimerStep(p)) /\ WF_vars(RaidTimerFires(p))

(* ----------------------- read fault specification -------------------- *)

\* An active campaign with a budget and its raid, in which user 1 (with a
\* wallet) earned the XP of a comment made after a like.
ReadFaultInit ==
  /\ campaigns = << CreatedCampaign([ totalBudget |-> 100, tokenPerXp |-> 0, tokenType |-> 1,
                                      thresholdXp |-> 10, endDate |-> CampaignEndDate ]) >>
  /\ raids = << CreatedRaid(1, [BaseConfig EXCEPT !.campaignId = 1], 1) >>
  /\ user_actions = << >>
  /\ xp_transactions = Entries(1, "raid", 1, << XpComment >>, 0)
  /\ users = [ u \in Users |-> [ total_xp |-> IF u = 1 THEN XpComment ELSE 0,
                                 is_verified |-> UserProfiles[u].is_verified,
                                 twitter_id |-> IF UserProfiles[u].is_verified THEN u ELSE 0,
                                 twitter_token |-> IF UserProfiles[u].is_verified THEN u ELSE 0,
                                 twitter_connected |-> UserProfiles[u].is_verified,
                                 sui_wallet_connected |-> UserProfiles[u].sui_wallet_connected,
                                 sui_wallet_address |-> UserProfiles[u].sui_wallet_address ] ]
  /\ timers = {1}
  /\ InitFront
  /\ sent = << >>
  /\ batches = << >>
  /\ clock = 2
  /\ ops = MaxReadOps
  /\ pc = [ p \in Procs |-> "idle" ]
  /\ loc = [ p \in Procs |-> IdleLoc ]
  /\ res = [ p \in Procs |-> "none" ]

\* Reads of XP totals and the termination of the campaign, with a store that
\* answers a read with the rows or with an error
ReadFaultNext ==
  \E p \in Procs :
    \/ \E u \in ReadUsers, src \in XpSources : getXpForSource(p, u, src)
    \/ getXpForSource_select(p)
    \/ getXpForSource_select_error(p)
    \/ getXpForSource_return(p)
    \/ \E c \in DOMAIN campaigns, u \in ReadUsers : Campaign_getUserXp(p, c, u)
    \/ Campaign_getUserXp_raidIds(p)
    \/ Campaign_getUserXp_select(p)
    \/ Campaign_getUserXp_select_error(p)
    \/ Campaign_getUserXp_return(p)
    \/ \E c \in DOMAIN campaigns : endCampaign(p, c, FALSE)
    \/ endCampaign_findById(p)
    \/ Campaign_end_save(p)
    \/ Campaign_getRaidIdsQuery(p)
    \/ Campaign_getQualifyingUsers(p)
    \/ Campaign_getQualifyingUsers_error(p)
    \/ endCampaign_completionMessage(p)
    \/ distributeRewards_sendTokens(p)
    \/ distributeRewards_save(p)
    \/ endCampaign_markRewardsDistributed(p)

ReadFaultSpec == ReadFaultInit /\ [][ReadFaultNext]_vars

(* ------------------------- action specification --------------------- *)

\* The store the actions are recorded in: one active raid, no action yet
ActionInit ==
  /\ raids = << CreatedRaid(1, [BaseConfig EXCEPT !.targetLikes = 3], 1) >>
  /\ campaigns = << >>
  /\ user_actions = << >>
  /\ xp_transactions = << >>
  /\ users = [ u \in Users |-> [ total_xp |-> 0,
                                 is_verified |-> UserProfiles[u].is_verified,
                                 twitter_id |-> IF UserProfiles[u].is_verified THEN u ELSE 0,
                                 twitter_token |-> IF UserProfiles[u].is_verified THEN u ELSE 0,
                                 twitter_connected |-> UserProfiles[u].is_verified,
                                 sui_wallet_connected |-> UserProfiles[u].sui_wallet_connected,
                                 sui_wallet_address |-> UserProfiles[u].sui_wallet_address ] ]
  /\ timers = {1}
  /\ InitFront
  /\ sent = << >>
  /\ batches = << >>
  /\ clock = 2
  /\ ops = MaxActionOps
  /\ pc = [ p \in Procs |-> "idle" ]
  /\ loc = [ p \in Procs |-> IdleLoc ]
  /\ res = [ p \in Procs |-> "none" ]

\* Actions of one user on the raid, recorded in any interleaving
ActionNext ==
  \E p \in Procs :
    \/ \E u \in RaidActionUsers, a \in RaidActionInputs : recordUserAction(p, 1, u, a)
    \/ recordUserAction_findRaid(p)
    \/ recordUserAction_findUser(p)
    \/ Raid_recordUserAction_existing(p)
    \/ Raid_recordUserAction_hasLiked(p)
    \/ Raid_recordUserAction_insert(p)
    \/ Raid_recordUserAction_findUser(p)
    \/ User_addXp_insert(p)
    \/ User_addXp_save(p)
    \/ Raid_recordUserAction_statistics(p)
    \/ Raid_recordUserAction_save(p)
    \/ recordUserAction_statistics(p)
    \/ recordUserAction_save(p)

ActionSpec == ActionInit /\ [][ActionNext]_vars

(* ---------------------- verification specification ------------------ *)

VerifyInit ==
  /\ raids = << CreatedRaid(1, [BaseConfig EXCEPT !.targetLikes = 3], 1) >>
  /\ campaigns = << >>
  /\ user_actions = << >>
  /\ xp_transactions = << >>
  /\ users = [ u \in Users |-> [ total_xp |-> 0,
                                 is_verified |-> UserProfiles[u].is_verified,
                                 twitter_id |-> IF UserProfiles[u].is_verified THEN u ELSE 0,
                                 twitter_token |-> IF UserProfiles[u].is_verified THEN u ELSE 0,
                                 twitter_connected |-> UserProfiles[u].is_verified,
                                 sui_wallet_connected |-> UserProfiles[u].sui_wallet_connected,
                                 sui_wallet_address |-> UserProfiles[u].sui_wallet_address ] ]
  /\ timers = {1}
  /\ InitFront
  /\ sent = << >>
  /\ batches = << >>
  /\ clock = 2
  /\ ops = MaxVerifyOps
  /\ pc = [ p \in Procs |-> "idle" ]
  /\ loc = [ p \in Procs |-> IdleLoc ]
  /\ res = [ p \in Procs |-> "none" ]

\* The verify button of the raid, pressed by its users in any interleaving
VerifyNext ==
  \E p \in Procs :
    \/ \E u \in VerifyUsers : verifyUserActions(p, 1, u)
    \/ verifyUserActions_findRaid(p)
    \/ verifyUserActions_findUser(p)
    \/ \E b \in BOOLEAN : verifyUserActions_hasLiked(p, b)
    \/ \E b \in BOOLEAN : verifyUserActions_hasRetweeted(p, b)
    \/ \E reply \in VerifiedReplies : verifyUserActions_replies(p, reply)
    \/ recordUserAction_findRaid(p)
    \/ recordUserAction_findUser(p)
    \/ Raid_recordUserAction_existing(p)
    \/ Raid_recordUserAction_hasLiked(p)
    \/ Raid_recordUserAction_insert(p)
    \/ Raid_recordUserAction_findUser(p)
    \/ User_addXp_insert(p)
    \/ User_addXp_save(p)
    \/ Raid_recordUserAction_statistics(p)
    \/ Raid_recordUserAction_save(p)
    \/ recordUserAction_statistics(p)
    \/ recordUserAction_save(p)

VerifySpec == VerifyInit /\ [][VerifyNext]_vars

(* ---------------------- configuration specification ----------------- *)

ConfigInit == InitStore /\ ops = MaxConfigOps

\* /dropraid and the three configuration buttons, from any user of the chats
ConfigNext ==
  \E p \in Procs :
    \/ \E c \in Chats, u \in ChatUsers, text \in DropRaidTexts :
         handleDropRaidCommand(p, c, u, text)
    \/ handleDropRaidCommand_isAdmin(p)
    \/ startRaidConfiguration_send(p)
    \/ \E c \in Chats, u \in ChatUsers, mode \in RaidModes :
         handleRaidModeCallback(p, c, u, mode)
    \/ handleRaidModeCallback_send(p)
    \/ \E c \in Chats, u \in ChatUsers, tokenType \in TokenTypes :
         handleTokenTypeCallback(p, c, u, tokenType)
    \/ handleTokenTypeCallback_send(p)
    \/ \E c \in Chats, u \in ChatUsers, model \in RewardModels :
         handleRewardModelCallback(p, c, u, model)
    \/ handleRewardModelCallback_send(p)

ConfigSpec == ConfigInit /\ [][ConfigNext]_vars

(* --------------------------- login specification --------------------- *)

AuthInit == InitStore /\ ops = MaxAuthOps

\* /login links are issued and OAuth callbacks arrive, with any state value,
\* while time passes
AuthNext ==
  \/ Tick
  \/ \E p \in Procs :
       \/ \E u \in Users : generateTwitterAuthUrl(p, u)
       \/ \E s \in StateValues : handleTwitterCallback(p, s)
       \/ \E accepted \in BOOLEAN : handleTwitterCallback_login(p, accepted)
       \/ \E t \in TwitterAccounts : handleTwitterCallback_me(p, t)
       \/ linkTwitterAccount_update(p)
       \/ handleTwitterCallback_upsert(p)

AuthSpec == AuthInit /\ [][AuthNext]_vars

(* ------------------------ creation specification -------------------- *)

CreateInit == InitStore /\ ops = MaxCreateOps

\* Raids and campaigns are created, from complete and incomplete configs
CreateNext ==
  \E p \in Procs :
    \/ \E cfg \in CreateRaidConfigs : createRaid(p, cfg)
    \/ createRaid_save(p)
    \/ createRaid_announce(p)
    \/ createRaid_saveMessage(p)
    \/ createRaid_saveEnd(p)
    \/ \E cfg \in CreateCampaignConfigs : createCampaign(p, cfg)
    \/ createCampaign_save(p)

CreateSpec == CreateInit /\ [][CreateNext]_vars

(* ------------------------------ properties ---------------------------- *)

Terminal == {COMPLETED, FAILED, CANCELLED}

Range(seq) == { seq[i] : i \in DOMAIN seq }

\* The action types user u has a user_actions row for in raid r
ActionTypes(u, r) ==
  { user_actions[i].action_type :
      i \in { j \in DOMAIN user_actions :
                user_actions[j].user_id = u /\ user_actions[j].raid_id = r } }

\* C1: whatever the interleaving of concurrent recordUserAction(r, u, t)
\* calls, the store holds at most one user_actions row for (u, r, t), never
\* more ledger entries for (u, r) than action types u performed in r, and,
\* once every call has returned, exactly one ledger entry per such type.
C1_OneRowOneCredit ==
  \A u \in Users, r \in DOMAIN raids :
    /\ \A i, j \in DOMAIN user_actions :
         (/\ user_actions[i].user_id = u /\ user_actions[j].user_id = u
          /\ user_actions[i].raid_id = r /\ user_actions[j].raid_id = r
          /\ user_actions[i].action_type = user_actions[j].action_type) => i = j
    /\ Cardinality(LedgerRows(u, "raid", r)) <= Cardinality(ActionTypes(u, r))
    /\ AllIdle => Cardinality(LedgerRows(u, "raid", r)) = Cardinality(ActionTypes(u, r))

\* The settlement batches started for raid r
RaidBatches(r) ==
  { i \in DOMAIN batches : batches[i].source_type = "raid" /\ batches[i].source_id = r }

\* C2: however the timer callback of scheduleRaidEnd and a manual endRaid of
\* the same raid are ordered or interleaved, token distribution is invoked at
\* most once for the raid.
C2_OneSettlementBatch ==
  \A r \in DOMAIN raids : Cardinality(RaidBatches(r)) <= 1

\* C3: once the persisted status of a raid is completed, failed or
\* cancelled, no step of any operation changes the persisted status or makes
\* the raid active again.
C3_TerminalIsFinal ==
  [][ \A r \in DOMAIN raids :
        raids[r].status \in Terminal =>
          /\ raids'[r].status = raids[r].status
          /\ ~raids'[r].is_active ]_vars

\* C4: each (sourceType, sourceId, userId) receives at most one successful
\* token transfer, across all settlement runs.
C4_AtMostOneTransfer ==
  \A i, j \in DOMAIN sent :
    (/\ sent[i].source_type = sent[j].source_type
     /\ sent[i].source_id = sent[j].source_id
     /\ sent[i].telegramId = sent[j].telegramId) => i = j

\* The successful transfers of settlement batch b
PaidInBatch(b) == { sent[i].telegramId : i \in { j \in DOMAIN sent : sent[j].batch = b } }

\* C5: when suiService.distributeRewards has returned, every reward of the
\* batch has had its turn although transfers before it threw: sendTokens was
\* invoked for every recipient with complete reward data, the successful
\* list holds exactly the recipients whose transfer succeeded and the failed
\* list exactly the others; while the loop runs the two lists account for
\* every reward before the current one.
C5_BatchPartition ==
  \A p \in Procs :
    LET l == loc[p]
        all == { l.rewards[i].telegramId : i \in DOMAIN l.rewards }
        complete == { l.rewards[i].telegramId :
                        i \in { j \in DOMAIN l.rewards : ~RewardDataMissing(l.rewards[j]) } }
    IN  /\ pc[p] = "distributeRewards_sendTokens" =>
             /\ l.idx \in DOMAIN l.rewards
             /\ Len(l.successful) + Len(l.failed) = l.idx - 1
        /\ pc[p] \in {"distributeRewards_save", "endCampaign_markRewardsDistributed"} =>
             /\ Len(l.successful) + Len(l.failed) = Len(l.rewards)
             /\ Range(l.called) = complete
             /\ Range(l.successful) = PaidInBatch(l.batch)
             /\ Range(l.failed) = all \ PaidInBatch(l.batch)

\* The transfer of the first reward threw and the next recipient was paid.
C5_Witness ==
  \E p \in Procs :
    /\ pc[p] = "distributeRewards_save"
    /\ Len(loc[p].rewards) >= 2
    /\ loc[p].rewards[1].telegramId \in Range(loc[p].called) \cap Range(loc[p].failed)
    /\ loc[p].rewards[2].telegramId \in Range(loc[p].successful)

\* C6: after a settlement batch has run to its end and its owner was saved,
\* the persisted row of the owning raid or campaign has rewards_distributed
\* = TRUE, also when transfers of the batch failed.
C6_FlagPersisted ==
  \A i \in DOMAIN batches :
    batches[i].done =>
      IF batches[i].source_type = "raid"
      THEN raids[batches[i].source_id].rewards_distributed
      ELSE campaigns[batches[i].source_id].rewards_distributed

\* The ledger rows of raids that belong to a campaign
CampaignRaidRows ==
  { k \in DOMAIN xp_transactions :
      /\ xp_transactions[k].source_type = "raid"
      /\ xp_transactions[k].source_id \in DOMAIN raids
      /\ raids[xp_transactions[k].source_id].campaign_id # 0 }

\* C7: a task that ends a raid with campaignId set never reaches the
\* transfers, and no XP earned in a raid that belongs to a campaign is paid
\* by more than one successful transfer.
C7_CampaignRaidPaidOnce ==
  /\ \A p \in Procs :
       (loc[p].op \in {"endRaid", "scheduleRaidEnd"} /\ loc[p].raid.campaignId # 0) =>
         pc[p] \notin {"distributeRewards_sendTokens", "distributeRewards_save"}
  /\ \A k \in CampaignRaidRows :
       Cardinality({ i \in DOMAIN sent : k \in sent[i].rows }) <= 1

\* C8: a task that terminates a raid calculates rewards, holds rewards or
\* runs transfers only if the status of the ended raid is completed, a reward
\* (totalReward or tokenPerXp) is configured and rewardsDistributed is false.
C8_SettlesOnlyWhenApplicable ==
  \A p \in Procs :
    (/\ loc[p].op \in {"endRaid", "scheduleRaidEnd"}
     /\ \/ pc[p] \in {"endRaid_calculateAllRewards", "distributeRewards_sendTokens",
                     "distributeRewards_save"}
        \/ Len(loc[p].rewards) > 0) =>
      /\ loc[p].raid.status = COMPLETED
      /\ loc[p].raid.totalReward # 0 \/ loc[p].raid.tokenPerXp # 0
      /\ ~loc[p].raid.rewardsDistributed

\* The termination of a completed raid with a reward is at its transfers.
C8_Witness ==
  \E p \in Procs :
    /\ loc[p].op \in {"endRaid", "scheduleRaidEnd"}
    /\ pc[p] = "distributeRewards_sendTokens"
    /\ loc[p].raid.status = COMPLETED

\* C9: a raid is constructed whatever its targets, all three zero included
\* (no createRaid ends in the ReferenceError of the constructor), and the
\* status Raid.end is about to save is cancelled with the cancelled option,
\* otherwise failed if a nonzero target exceeds its actual count, otherwise
\* completed; the end time it saves is set.
C9_TerminationStatus ==
  \A p \in Procs :
    /\ res[p] # "reference_error"
    /\ pc[p] = "Raid_end_save" =>
         LET r == loc[p].raid
             short == \/ r.targetLikes # 0 /\ r.targetLikes > r.actualLikes
                      \/ r.targetRetweets # 0 /\ r.targetRetweets > r.actualRetweets
                      \/ r.targetComments # 0 /\ r.targetComments > r.actualComments
         IN  /\ r.status = IF loc[p].cancelled THEN CANCELLED
                           ELSE IF short THEN FAILED ELSE COMPLETED
             /\ r.endTime # 0
             /\ ~r.isActive

\* C10: recordUserAction that finds the persisted raid not active returns the
\* failure 'Raid is no longer active' there and then, and the step leaves
\* user_actions, the ledger, the users' totals and the raid rows unchanged.
C10_InactiveRaidRejected ==
  [][ \A p \in Procs :
        (/\ pc[p] = "recordUserAction_findRaid"
         /\ pc'[p] # "recordUserAction_findRaid"
         /\ RaidExists(loc[p].raidId)
         /\ ~raids[loc[p].raidId].is_active) =>
          /\ pc'[p] = "idle"
          /\ res'[p] = "not_active"
          /\ user_actions' = user_actions
          /\ xp_transactions' = xp_transactions
          /\ users' = users
          /\ raids' = raids ]_vars

\* A recordUserAction call has returned 'Raid is no longer active'.
C10_Witness ==
  \E p \in Procs : res[p] = "not_active"

\* The ledger rows of user u, whatever their source
UserRows(u) ==
  { i \in DOMAIN xp_transactions : xp_transactions[i].user_id = u }

\* C11: once every credit has returned, whatever their interleaving, the
\* stored total_xp of a user whose row only credits write equals the sum of
\* the amounts of all ledger entries of that user.
C11_TotalIsLedgerSum ==
  AllIdle =>
    \A u \in DOMAIN users \ WalletUsers :
      users[u].total_xp = SumAmounts(UserRows(u))

\* C12: a credit is all or nothing.  The step that ends User.addXp after its
\* ledger entry was appended leaves the stored total increased, and the step
\* that ends addUserXp after the stored total was increased leaves the ledger
\* entry appended, also when the request of that step fails.
C12_CreditAllOrNothing ==
  [][ \A p \in Procs :
        /\ (pc[p] = "User_addXp_save" /\ pc'[p] # pc[p]) =>
             users'[loc[p].user].total_xp = loc[p].totalXp
        /\ (pc[p] = "addUserXp_insert" /\ pc'[p] # pc[p]) =>
             Len(xp_transactions') = Len(xp_transactions) + 1 ]_vars

C14_LedgerOnlyWriter ==
  [][ /\ \A i \in DOMAIN xp_transactions :
           i \in DOMAIN xp_transactions' /\ xp_transactions'[i] = xp_transactions[i]
      /\ \A u \in DOMAIN users :
           users'[u].total_xp # users[u].total_xp =>
             \E p \in Procs :
               /\ loc[p].user = u
               /\ pc[p] \in {"User_addXp_save", "addUserXp_update"}
               /\ pc'[p] # pc[p] ]_vars

\* What the eligibility rule reads from the store: a user's XP for a raid
\* and for a campaign (its own entries and those of its raids), and the
\* connected payout wallet with an address.
RaidXp(u, id) ==
  SumAmounts({ i \in DOMAIN xp_transactions :
                 /\ xp_transactions[i].user_id = u
                 /\ xp_transactions[i].source_type = "raid"
                 /\ xp_transactions[i].source_id = id })

CampaignXp(u, id) ==
  SumAmounts({ i \in DOMAIN xp_transactions :
                 /\ xp_transactions[i].user_id = u
                 /\ \/ /\ xp_transactions[i].source_type = "campaign"
                       /\ xp_transactions[i].source_id = id
                    \/ /\ xp_transactions[i].source_type = "raid"
                       /\ xp_transactions[i].source_id \in DOMAIN raids
                       /\ raids[xp_transactions[i].source_id].campaign_id = id })

hasSuiWalletConnected(u) ==
  users[u].sui_wallet_connected /\ users[u].sui_wallet_address # 0

\* The participants of a raid and of a campaign, and those the rule admits
RaidParticipants(id) ==
  { u \in DOMAIN users :
      \E i \in DOMAIN xp_transactions :
        /\ xp_transactions[i].user_id = u
        /\ xp_transactions[i].source_type = "raid"
        /\ xp_transactions[i].source_id = id }

CampaignParticipants(id) ==
  { u \in DOMAIN users :
      \E i \in DOMAIN xp_transactions :
        /\ xp_transactions[i].user_id = u
        /\ \/ /\ xp_transactions[i].source_type = "campaign"
              /\ xp_transactions[i].source_id = id
           \/ /\ xp_transactions[i].source_type = "raid"
              /\ xp_transactions[i].source_id \in DOMAIN raids
              /\ raids[xp_transactions[i].source_id].campaign_id = id }

RaidQualifying(r) ==
  { u \in RaidParticipants(r.id) :
      /\ r.thresholdXp = 0 \/ RaidXp(u, r.id) >= r.thresholdXp
      /\ hasSuiWalletConnected(u) }

CampaignQualifying(c) ==
  { u \in CampaignParticipants(c.id) :
      /\ c.thresholdXp = 0 \/ CampaignXp(u, c.id) >= c.thresholdXp
      /\ hasSuiWalletConnected(u) }

RECURSIVE RaidXpSum(_, _)
RaidXpSum(us, id) ==
  IF us = {} THEN 0
  ELSE LET u == CHOOSE x \in us : TRUE IN RaidXp(u, id) + RaidXpSum(us \ {u}, id)

RECURSIVE CampaignXpSum(_, _)
CampaignXpSum(us, id) ==
  IF us = {} THEN 0
  ELSE LET u == CHOOSE x \in us : TRUE
       IN  CampaignXp(u, id) + CampaignXpSum(us \ {u}, id)

\* The step in which a termination computes the reward list of its raid or
\* of its campaign; the list is loc'[p].rewards.
RaidRewardsComputed(p) ==
  pc[p] = "endRaid_calculateAllRewards" /\ pc'[p] = "endRaid_completionMessage"

CampaignRewardsComputed(p) ==
  pc[p] = "Campaign_getQualifyingUsers" /\ pc'[p] = "endCampaign_completionMessage"

\* The sum of the numerators of a reward list
RECURSIVE SumNum(_)
SumNum(rewards) ==
  IF rewards = << >> THEN 0 ELSE Head(rewards).num + SumNum(Tail(rewards))

\* The amounts num / den of a non-empty reward list, over one denominator,
\* sum to pool
AmountsSumTo(rewards, pool) ==
  /\ \A i \in DOMAIN rewards : rewards[i].den = rewards[1].den /\ rewards[i].den # 0
  /\ SumNum(rewards) = pool * rewards[1].den

\* Every reward of the list is xp / total x pool, for the xp of its user
PoolShares(rewards, xp, total, pool) ==
  \A i \in DOMAIN rewards :
    /\ rewards[i].den # 0 /\ total # 0
    /\ rewards[i].num * total = xp[rewards[i].telegramId] * pool * rewards[i].den

C16_IneligibleNotInDenominator ==
  [][ \A p \in Procs :
        /\ ( /\ RaidRewardsComputed(p)
             /\ loc[p].raid.tokenPerXp = 0 /\ loc[p].raid.totalReward # 0 ) =>
             \A i \in DOMAIN loc'[p].rewards :
               LET w == loc'[p].rewards[i]
                   denominator ==
                     RaidXpSum({ u \in RaidParticipants(loc[p].raid.id) :
                                   /\ ~(loc[p].raid.thresholdXp > 0 /\
                                        RaidXp(u, loc[p].raid.id) < loc[p].raid.thresholdXp)
                                   /\ users[u].sui_wallet_connected
                                   /\ users[u].sui_wallet_address # 0 },
                               loc[p].raid.id)
               IN  /\ w.den # 0
                   /\ w.num * denominator =
                        RaidXp(w.telegramId, loc[p].raid.id) * loc[p].raid.totalReward * w.den
                   /\ (Len(loc'[p].rewards) = 1 /\ denominator > 0) =>
                        w.num = loc[p].raid.totalReward * w.den
        /\ ( /\ CampaignRewardsComputed(p)
             /\ loc[p].campaign.tokenPerXp = 0 /\ loc[p].campaign.totalBudget # 0 ) =>
             \A i \in DOMAIN loc'[p].rewards :
               LET w == loc'[p].rewards[i]
                   denominator ==
                     CampaignXpSum({ u \in CampaignParticipants(loc[p].campaign.id) :
                                       /\ CampaignXp(u, loc[p].campaign.id) >=
                                            loc[p].campaign.thresholdXp
                                       /\ users[u].sui_wallet_connected
                                       /\ users[u].sui_wallet_address # 0 },
                                   loc[p].campaign.id)
               IN  /\ w.den # 0
                   /\ w.num * denominator =
                        CampaignXp(w.telegramId, loc[p].campaign.id) *
                          loc[p].campaign.totalBudget * w.den
                   /\ Len(loc'[p].rewards) = 1 =>
                        w.num = loc[p].campaign.totalBudget * w.den ]_vars

\* A raid with a pool, no rate and threshold 100 whose participants hold 50
\* and 150 XP, and 11 XP without a wallet, has computed one reward, the whole
\* pool for the user with 150 XP.
C16_Witness ==
  \E p \in Procs :
    /\ pc[p] = "endRaid_completionMessage"
    /\ loc[p].raid.totalReward # 0 /\ loc[p].raid.tokenPerXp = 0
    /\ loc[p].raid.thresholdXp = 100
    /\ { RaidXp(u, loc[p].raid.id) : u \in RaidParticipants(loc[p].raid.id) } = {11, 50, 150}
    /\ Len(loc[p].rewards) = 1
    /\ loc[p].rewards[1].xpAmount = 150
    /\ loc[p].rewards[1].num = loc[p].raid.totalReward * loc[p].rewards[1].den

\* C17: the users of the reward list computed for a raid or a campaign are
\* exactly its participants with (thresholdXp = 0 or XP for it >= thresholdXp)
\* and a connected payout wallet with an address.
C17_RewardListIsQualifying ==
  [][ \A p \in Procs :
        /\ RaidRewardsComputed(p) =>
             { loc'[p].rewards[i].telegramId : i \in DOMAIN loc'[p].rewards } =
               RaidQualifying(loc[p].raid)
        /\ CampaignRewardsComputed(p) =>
             { loc'[p].rewards[i].telegramId : i \in DOMAIN loc'[p].rewards } =
               CampaignQualifying(loc[p].campaign) ]_vars

\* C18: when tokenPerXp is set, with or without a pool amount, every amount
\* of the computed reward list is the user's XP x tokenPerXp, whatever the
\* other participants hold.
C18_FixedRate ==
  [][ \A p \in Procs :
        /\ (RaidRewardsComputed(p) /\ loc[p].raid.tokenPerXp # 0) =>
             \A i \in DOMAIN loc'[p].rewards :
               /\ loc'[p].rewards[i].den = 1
               /\ loc'[p].rewards[i].num =
                    RaidXp(loc'[p].rewards[i].telegramId, loc[p].raid.id) *
                      loc[p].raid.tokenPerXp
        /\ (CampaignRewardsComputed(p) /\ loc[p].campaign.tokenPerXp # 0) =>
             \A i \in DOMAIN loc'[p].rewards :
               /\ loc'[p].rewards[i].den = 1
               /\ loc'[p].rewards[i].num =
                    CampaignXp(loc'[p].rewards[i].telegramId, loc[p].campaign.id) *
                      loc[p].campaign.tokenPerXp ]_vars

\* A raid with both a rate and a pool has computed, for several users, the
\* amounts XP x rate, which do not sum to the pool.
C18_Witness ==
  \E p \in Procs :
    /\ pc[p] = "endRaid_completionMessage"
    /\ loc[p].raid.tokenPerXp # 0 /\ loc[p].raid.totalReward # 0
    /\ Len(loc[p].rewards) > 1
    /\ \A i \in DOMAIN loc[p].rewards :
         /\ loc[p].rewards[i].xpAmount > 0
         /\ loc[p].rewards[i].num = loc[p].rewards[i].xpAmount * loc[p].raid.tokenPerXp
    /\ SumNum(loc[p].rewards) # loc[p].raid.totalReward

\* C19: when no participant qualifies the computed reward list is empty; no
\* computed amount has the denominator 0; and a termination whose reward
\* list is empty starts no batch and makes no transfer.
C19_NoQualifierNoTransfer ==
  [][ \A p \in Procs :
        /\ RaidRewardsComputed(p) =>
             /\ RaidQualifying(loc[p].raid) = {} => loc'[p].rewards = << >>
             /\ \A i \in DOMAIN loc'[p].rewards : loc'[p].rewards[i].den # 0
        /\ CampaignRewardsComputed(p) =>
             /\ CampaignQualifying(loc[p].campaign) = {} => loc'[p].rewards = << >>
             /\ \A i \in DOMAIN loc'[p].rewards : loc'[p].rewards[i].den # 0
        /\ ( /\ pc[p] \in {"endRaid_completionMessage", "endCampaign_completionMessage"}
             /\ pc'[p] # pc[p]
             /\ loc[p].rewards = << >> ) =>
             /\ pc'[p] = "idle"
             /\ batches' = batches
             /\ sent' = sent ]_vars

\* A termination of a raid that has participants, none of whom qualifies,
\* has returned with an empty reward list and without a batch or a transfer.
C19_Witness ==
  /\ \E r \in DOMAIN raids :
       /\ ~raids[r].is_active
       /\ RaidParticipants(r) # {}
       /\ \A u \in RaidParticipants(r) :
            \/ ~hasSuiWalletConnected(u)
            \/ (raids[r].threshold_xp > 0 /\ RaidXp(u, r) < raids[r].threshold_xp)
  /\ \E p \in Procs : res[p] = "ended"
  /\ batches = << >>
  /\ sent = << >>

\* C20: the value Campaign.getUserXp computes for user u is the sum of the
\* amounts of u's ledger entries whose source is that campaign or a raid that
\* belongs to it, as the store is when the call reads the ledger; entries of
\* other campaigns and of other raids are not in it.
C20_CampaignXpIsOwnAndChildren ==
  [][ \A p \in Procs :
        (pc[p] = "Campaign_getUserXp_select" /\ pc'[p] # pc[p]) =>
          loc'[p].totalXp =
            SumAmounts({ i \in DOMAIN xp_transactions :
                           /\ xp_transactions[i].user_id = loc[p].user
                           /\ \/ /\ xp_transactions[i].source_type = "campaign"
                                 /\ xp_transactions[i].source_id = loc[p].campaign.id
                              \/ /\ xp_transactions[i].source_type = "raid"
                                 /\ xp_transactions[i].source_id \in DOMAIN raids
                                 /\ raids[xp_transactions[i].source_id].campaign_id =
                                      loc[p].campaign.id }) ]_vars

\* The settlement batches started for a campaign
CampaignBatches(c) ==
  { i \in DOMAIN batches :
      batches[i].source_type = "campaign" /\ batches[i].source_id = c }

\* C21: once the persisted status of a campaign is completed or cancelled no
\* later termination changes it or makes the campaign active again, and at
\* most one settlement batch is ever started for a campaign, however the
\* expiry sweep and manual terminations interleave.
C21_CampaignEndedOnce ==
  /\ [][ \A c \in DOMAIN campaigns :
           campaigns[c].status \in Terminal =>
             /\ campaigns'[c].status = campaigns[c].status
             /\ ~campaigns'[c].is_active ]_vars
  /\ [](\A c \in DOMAIN campaigns : Cardinality(CampaignBatches(c)) <= 1)

\* C22: the insert of createRaid persists the raid as active with
\* start_time = now; the last save of createRaid persists end_time =
\* start_time + duration and registers the timer of the raid; and every raid
\* that is persisted as active eventually has a terminal status.
C22_ActiveRaidTerminates ==
  /\ [][ \A p \in Procs :
           /\ (pc[p] = "createRaid_save" /\ Len(raids') = Len(raids) + 1) =>
                /\ raids'[Len(raids')].is_active
                /\ raids'[Len(raids')].status = ACTIVE
                /\ raids'[Len(raids')].start_time = clock
           /\ (pc[p] = "createRaid_saveEnd" /\ pc'[p] # pc[p]) =>
                /\ raids'[loc[p].raid.id].end_time =
                     raids[loc[p].raid.id].start_time + raids[loc[p].raid.id].duration
                /\ loc[p].raid.id \in timers' ]_vars
  /\ \A r \in 1..MaxRaids :
       (r \in DOMAIN raids /\ raids[r].is_active)
         ~> (r \in DOMAIN raids /\ raids[r].status \in Terminal)

\* C23: a createRaid whose config lacks the tweet URL, the admin or the chat
\* ends with an error at the step that follows getTweetInfo: it writes no
\* raid row, registers no timer and never reaches the announcement.
C23_IncompleteRaidRejected ==
  [][ \A p \in Procs :
        ( /\ pc[p] = "createRaid_save" /\ pc'[p] # pc[p]
          /\ ~(loc[p].raid.tweetUrl /\ loc[p].raid.adminId /\ loc[p].raid.chatId) ) =>
          /\ raids' = raids
          /\ timers' = timers
          /\ pc'[p] = "idle"
          /\ res'[p] \in {"tweet_error", "validation_error"} ]_vars

\* A createRaid was rejected by the validation (here only an absent admin or
\* chat fails it) and the store holds no raid and no timer.
C23_Witness ==
  /\ \E p \in Procs : res[p] = "validation_error"
  /\ raids = << >>
  /\ timers = {}
  /\ campaigns = << >>

\* C24: a createCampaign whose end date is missing or not after the start
\* date, or whose threshold is not greater than 0, ends with a validation
\* error and writes nothing; every campaigns row has end_date > start_date
\* and threshold_xp > 0.
C24_InvalidCampaignRejected ==
  /\ [][ \A p \in Procs :
           ( /\ pc[p] = "createCampaign_save" /\ pc'[p] # pc[p]
             /\ \/ loc[p].campaign.endDate <= loc[p].campaign.startDate
                \/ loc[p].campaign.thresholdXp <= 0 ) =>
             /\ campaigns' = campaigns
             /\ res'[p] = "validation_error" ]_vars
  /\ [](\A c \in DOMAIN campaigns :
          campaigns[c].end_date > campaigns[c].start_date /\ campaigns[c].threshold_xp > 0)

\* A createCampaign was rejected and another one was accepted: the store
\* holds one campaign, whose end date is after its start date.
C24_Witness ==
  /\ \E p \in Procs : res[p] = "validation_error"
  /\ Len(campaigns) = 1
  /\ campaigns[1].end_date > campaigns[1].start_date
  /\ raids = << >>

\* C25: recordUserAction answers "needs verification" exactly when the raid
\* requires verification and the user is not verified, and then changes no
\* state; a raid requires verification as its creator asked: the row
\* createRaid inserts carries the requireVerification of the config, so on a
\* raid created with requireVerification = false an unverified user is not
\* turned away.
C25_VerificationAsConfigured ==
  [][ \A p \in Procs :
        /\ (pc[p] = "createRaid_save" /\ Len(raids') = Len(raids) + 1) =>
             raids'[Len(raids')].require_verification = loc[p].raid.requireVerification
        /\ (pc[p] = "recordUserAction_findUser" /\ pc'[p] # pc[p]
              /\ loc[p].user \in DOMAIN users) =>
             /\ (res'[p] = "needs_verification") <=>
                  ( raids[loc[p].raidId].require_verification
                      /\ ~users[loc[p].user].is_verified )
             /\ (res'[p] = "needs_verification") => store' = store ]_vars

\* C26: the XP of a recorded action is the table value of its type (like 10,
\* retweet 10, comment 15, with image 20, with GIF 25); the read of the
\* user's like leaves floor(0.75 x table value) iff the user has no like
\* recorded for the raid when it is read, a like keeps the table value, and
\* the row inserted carries the value so computed.
C26_XpByTableAndLike ==
  [][ \A p \in Procs :
        LET a == loc[p].input
            table == CASE a.type = "like" -> XpLike
                       [] a.type = "retweet" -> XpRetweet
                       [] a.type = "comment" /\ ~a.hasMedia -> XpComment
                       [] a.type = "comment" /\ a.hasMedia /\ ~a.isGif -> XpCommentWithImage
                       [] a.type = "comment" /\ a.hasMedia /\ a.isGif -> XpCommentWithGif
                       [] OTHER -> 0
            liked == \E i \in DOMAIN user_actions :
                       /\ user_actions[i].user_id = loc[p].user
                       /\ user_actions[i].raid_id = loc[p].raidId
                       /\ user_actions[i].action_type = "like"
        IN  /\ (pc[p] = "Raid_recordUserAction_existing"
                  /\ pc'[p] = "Raid_recordUserAction_insert") =>
                 a.type = "like" /\ loc'[p].xpEarned = table
            /\ (pc[p] = "Raid_recordUserAction_hasLiked" /\ pc'[p] # pc[p]) =>
                 /\ a.type # "like"
                 /\ loc'[p].xpEarned = IF liked THEN table ELSE (3 * table) \div 4
            /\ (pc[p] = "Raid_recordUserAction_insert" /\ pc'[p] # pc[p]) =>
                 /\ Len(user_actions') = Len(user_actions) + 1
                 /\ user_actions'[Len(user_actions')].xp_earned = loc[p].xpEarned ]_vars

\* C27: when no recordUserAction is running, the counters of the raid row
\* are the numbers of user_actions rows of the raid by action type.
C27_CountersAreRecounts ==
  (\A p \in Procs : pc[p] = "idle") =>
     \A r \in DOMAIN raids :
        /\ raids[r].actual_likes = CountActions(r, "like")
        /\ raids[r].actual_retweets = CountActions(r, "retweet")
        /\ raids[r].actual_comments = CountActions(r, "comment")

\* C28: whether the completion announcement is delivered or bot.sendMessage
\* throws, a termination that computed a non-empty reward list settles it:
\* the step of the announcement starts the batch of transfers (which ends
\* with rewardsDistributed set), for a raid outside a campaign and for a
\* campaign.
C28_AnnouncementDoesNotStopSettlement ==
  [][ \A p \in Procs :
        /\ ( /\ pc[p] = "endRaid_completionMessage" /\ pc'[p] # pc[p]
             /\ Len(loc[p].rewards) > 0 /\ loc[p].raid.campaignId = 0 ) =>
             /\ Len(batches') = Len(batches) + 1
             /\ pc'[p] = "distributeRewards_sendTokens"
        /\ ( /\ pc[p] = "endCampaign_completionMessage" /\ pc'[p] # pc[p]
             /\ Len(loc[p].rewards) > 0 ) =>
             /\ Len(batches') = Len(batches) + 1
             /\ pc'[p] = "distributeRewards_sendTokens" ]_vars

\* C29: a read of a ledger total that hands a value to its caller hands the
\* sum of the ledger rows it asked for, and a termination that goes on after
\* the qualifying query goes on with the rewards of the users the ledger
\* qualifies; a store error ends the read without a value.
C29_ReadFailureSurfaced ==
  [][ \A p \in Procs :
        /\ (pc[p] = "getXpForSource_select" /\ pc'[p] = "getXpForSource_return") =>
             loc'[p].totalXp =
               SumAmounts(LedgerRows(loc[p].user, loc[p].sourceType, loc[p].sourceId))
        /\ (pc[p] = "Campaign_getUserXp_select" /\ pc'[p] = "Campaign_getUserXp_return"
              /\ loc[p].raidIds # {}) =>
             loc'[p].totalXp = SumAmounts(GetUserXpRows(loc[p].user, loc[p].raidIds))
        /\ (pc[p] = "Campaign_getQualifyingUsers"
              /\ pc'[p] = "endCampaign_completionMessage") =>
             Len(loc'[p].rewards) =
               Len(CampaignCalculateAllRewards(loc[p].campaign, loc[p].raidIds)) ]_vars

\* C30: the campaigns a sweep is going to end are the campaigns that are
\* active with an end date before the time of the sweep, so none of them has
\* an end date ahead; a sweep that still has campaigns to end goes on with
\* the next one whatever the termination of the previous one returned or
\* threw; and every active campaign whose end date has passed is eventually
\* not active any more.
C30_SweepEndsExpired ==
  /\ [][ \A p \in Procs :
           /\ (pc[p] = "checkForEndedCampaigns_select" /\ pc'[p] # pc[p]) =>
                LET expired == { c \in DOMAIN campaigns :
                                   campaigns[c].is_active
                                     /\ campaigns[c].end_date < loc[p].now }
                IN  IF expired = {}
                    THEN pc'[p] = "idle"
                    ELSE /\ pc'[p] = "endCampaign_findById"
                         /\ {loc'[p].campaignId}
                              \cup {loc'[p].queue[i] : i \in DOMAIN loc'[p].queue} = expired
                         /\ Len(loc'[p].queue) + 1 = Cardinality(expired)
           /\ (loc[p].sweep /\ loc[p].queue # << >> /\ pc'[p] # pc[p]
                 /\ pc[p] # "checkForEndedCampaigns_select") =>
                \/ loc'[p].queue = loc[p].queue /\ loc'[p].campaignId = loc[p].campaignId
                \/ /\ pc'[p] = "endCampaign_findById"
                   /\ loc'[p].campaignId = Head(loc[p].queue)
                   /\ loc'[p].queue = Tail(loc[p].queue) ]_vars
  /\ [](\A p \in Procs : (loc[p].sweep /\ loc[p].op = "endCampaign") =>
           /\ campaigns[loc[p].campaignId].end_date < clock
           /\ \A i \in DOMAIN loc[p].queue : campaigns[loc[p].queue[i]].end_date < clock)
  /\ \A c \in 1..2 :
       (c \in DOMAIN campaigns /\ campaigns[c].is_active /\ campaigns[c].end_date < clock)
         ~> (~campaigns[c].is_active)

\* One sweep found both campaigns expired; the announcement of campaign 1
\* failed (completed, no batch of transfers), and the sweep is at the
\* termination of campaign 2.  No other call has run.
C30_Witness ==
  /\ \E p \in Procs :
       /\ loc[p].sweep
       /\ pc[p] = "endCampaign_findById"
       /\ loc[p].campaignId = 2
       /\ \A q \in Procs \ {p} : res[q] = "none"
  /\ campaigns[1].status = COMPLETED
  /\ ~campaigns[1].is_active
  /\ campaigns[2].is_active
  /\ campaigns[1].end_date = campaigns[2].end_date
  /\ batches = << >>
  /\ ops = MaxSweepOps

\* C31: a campaign whose row says cancelled stays cancelled in every step,
\* and no step starts a batch of transfers or makes a transfer for it.
C31_CancelledIsFinal ==
  [][ \A c \in DOMAIN campaigns :
        campaigns[c].status = CANCELLED =>
          /\ campaigns'[c].status = CANCELLED
          /\ { i \in DOMAIN batches' : batches'[i].source_type = "campaign"
                                        /\ batches'[i].source_id = c }
               = { i \in DOMAIN batches : batches[i].source_type = "campaign"
                                           /\ batches[i].source_id = c }
          /\ { i \in DOMAIN sent' : sent'[i].source_type = "campaign"
                                     /\ sent'[i].source_id = c }
               = { i \in DOMAIN sent : sent[i].source_type = "campaign"
                                        /\ sent[i].source_id = c } ]_vars

\* C32: every ledger entry has an amount greater than 0, and so has every
\* recorded user action.
C32_PositiveAmounts ==
  /\ \A i \in DOMAIN xp_transactions : xp_transactions[i].amount > 0
  /\ \A i \in DOMAIN user_actions : user_actions[i].xp_earned > 0

\* C33: while no recordUserAction is running, the recorded actions of a user
\* in a raid worth x XP are matched one to one by the ledger entries of that
\* user for that raid with amount x.
C33_ActionHasItsCredit ==
  (\A p \in Procs : loc[p].op # "recordUserAction") =>
     \A i \in DOMAIN user_actions :
        LET a == user_actions[i]
        IN  Cardinality({ j \in DOMAIN xp_transactions :
                            /\ xp_transactions[j].user_id = a.user_id
                            /\ xp_transactions[j].source_type = "raid"
                            /\ xp_transactions[j].source_id = a.raid_id
                            /\ xp_transactions[j].amount = a.xp_earned })
              = Cardinality({ j \in DOMAIN user_actions :
                                /\ user_actions[j].user_id = a.user_id
                                /\ user_actions[j].raid_id = a.raid_id
                                /\ user_actions[j].xp_earned = a.xp_earned })

\* C34: once a batch of transfers has been started for a raid (its rewards
\* have been calculated), no step adds a user_actions row or a ledger entry
\* of that raid.
C34_NoCreditAfterRewards ==
  [][ \A r \in DOMAIN raids :
        (\E i \in DOMAIN batches :
            batches[i].source_type = "raid" /\ batches[i].source_id = r) =>
          /\ { i \in DOMAIN user_actions' : user_actions'[i].raid_id = r }
               = { i \in DOMAIN user_actions : user_actions[i].raid_id = r }
          /\ { i \in DOMAIN xp_transactions' :
                 xp_transactions'[i].source_type = "raid"
                   /\ xp_transactions'[i].source_id = r }
               = { i \in DOMAIN xp_transactions :
                     xp_transactions[i].source_type = "raid"
                       /\ xp_transactions[i].source_id = r } ]_vars

\* C35: while no call is running, a raid whose row says completed has every
\* nonzero target reached by the counter of its row, and a raid whose row
\* says failed has a nonzero target above the counter of its row.
C35_StatusMatchesCounters ==
  (\A p \in Procs : pc[p] = "idle") =>
     \A r \in DOMAIN raids :
        LET row == raids[r]
            met == /\ row.target_likes # 0 => row.target_likes <= row.actual_likes
                   /\ row.target_retweets # 0 => row.target_retweets <= row.actual_retweets
                   /\ row.target_comments # 0 => row.target_comments <= row.actual_comments
        IN  /\ row.status = COMPLETED => met
            /\ row.status = FAILED => ~met

\* The sum of the amounts num / den of the successful transfers made for a
\* source, as a fraction << n, d >>
RECURSIVE TransferredFor(_, _, _)
TransferredFor(stype, sid, k) ==
  IF k = 0 THEN << 0, 1 >>
  ELSE LET rest == TransferredFor(stype, sid, k - 1)
           e == sent[k]
       IN  IF e.source_type = stype /\ e.source_id = sid
           THEN << rest[1] * e.den + e.num * rest[2], rest[2] * e.den >>
           ELSE rest

\* C36: for a raid or a campaign on the pool-share model the amounts of the
\* successful transfers made for it sum to no more than its pool.
C36_TransfersWithinPool ==
  /\ \A r \in DOMAIN raids :
       (raids[r].total_reward # 0 /\ raids[r].token_per_xp = 0) =>
          LET t == TransferredFor("raid", r, Len(sent))
          IN  t[1] <= raids[r].total_reward * t[2]
  /\ \A c \in DOMAIN campaigns :
       (campaigns[c].total_budget # 0 /\ campaigns[c].token_per_xp = 0) =>
          LET t == TransferredFor("campaign", c, Len(sent))
          IN  t[1] <= campaigns[c].total_budget * t[2]

\* C37: when calculateUserReward hands its result for a user who has ledger
\* entries for the raid to the caller, the user is eligible iff
\* calculateAllRewards on the same raid and store lists the user, and then
\* with the same token amount.
C37_SingleAgreesWithBatch ==
  [][ \A p \in Procs :
        (pc[p] # "calculateUserReward_return"
           /\ pc'[p] = "calculateUserReward_return"
           /\ LedgerRows(loc[p].user, "raid", loc[p].raid.id) # {}) =>
          LET all == calculateAllRewards(loc[p].raid)
              mine == { i \in DOMAIN all : all[i].telegramId = loc[p].user }
              single == loc'[p].rewards
          IN  /\ (single # << >>) <=> (mine # {})
              /\ \A i \in mine :
                   single # << >> =>
                     single[1].num * all[i].den = all[i].num * single[1].den ]_vars

\* C38: verifyUserActions records what it verified in the order like, retweet,
\* comment, one call at a time; and once the like of a verification has been
\* recorded successfully, the retweet and the comment of that verification are
\* entered at the full table value, without the 25% penalty.
C38_VerifiedAtFullValue ==
  [][ \A p \in Procs :
        /\ loc[p].verifying =>
             /\ loc[p].input.type = "like" =>
                  \A i \in DOMAIN loc[p].toRecord : loc[p].toRecord[i].type # "like"
             /\ loc[p].input.type = "retweet" =>
                  \A i \in DOMAIN loc[p].toRecord : loc[p].toRecord[i].type = "comment"
             /\ loc[p].input.type = "comment" => loc[p].toRecord = << >>
        /\ ( /\ pc[p] = "Raid_recordUserAction_insert"
             /\ pc'[p] # pc[p]
             /\ loc[p].verifying
             /\ loc[p].likeRecorded
             /\ loc[p].input.type # "like" ) =>
             user_actions'[Len(user_actions')].xp_earned = getXpForAction(loc[p].input) ]_vars

\* The three configuration callbacks
ConfigCallbacks ==
  { "handleRaidModeCallback", "handleTokenTypeCallback", "handleRewardModelCallback" }

\* C39: a mode, token-type or reward-model callback pressed by anyone but the
\* admin who started the pending configuration of the chat leaves every
\* configuration as it is; a pending configuration changes only by a callback
\* of its admin, or when an admin's /dropraid replaces it with a new one.
C39_OnlyItsAdminConfigures ==
  [][ /\ \A p \in Procs :
           ( /\ pc[p] = "idle"
             /\ pc'[p] # "idle"
             /\ loc'[p].op \in ConfigCallbacks
             /\ loc'[p].user # tempRaidConfig[loc'[p].chat].adminId ) =>
             tempRaidConfig' = tempRaidConfig
      /\ \A c \in Chats :
           (tempRaidConfig[c] # NoConfig /\ tempRaidConfig'[c] # tempRaidConfig[c]) =>
             \E p \in Procs :
               \/ /\ pc[p] = "idle"
                  /\ loc'[p].op \in ConfigCallbacks
                  /\ loc'[p].chat = c
                  /\ loc'[p].user = tempRaidConfig[c].adminId
                  /\ tempRaidConfig'[c].adminId = tempRaidConfig[c].adminId
               \/ /\ pc[p] = "handleDropRaidCommand_isAdmin"
                  /\ loc[p].chat = c
                  /\ loc[p].user \in ChatAdmins
                  /\ tempRaidConfig'[c] =
                       [NoConfig EXCEPT !.tweetUrl = 1, !.adminId = loc[p].user,
                                        !.stage = "mode"] ]_vars

\* A button pressed by another user is refused while the configuration the
\* admin has already advanced stays pending.
C39_Witness ==
  \E p \in Procs :
    /\ pc[p] \in { "handleRaidModeCallback_send", "handleTokenTypeCallback_send",
                  "handleRewardModelCallback_send" }
    /\ loc[p].answer = "only_admin"
    /\ tempRaidConfig[loc[p].chat].mode # "none"
    /\ tempRaidConfig[loc[p].chat].adminId # loc[p].user

\* C40: handleTwitterCallback goes on to the login only with a state that is
\* stored, was issued at most an hour ago, and is deleted by that very step;
\* the account is then linked to the Telegram user the state was issued for,
\* and nothing else links a Twitter account or marks a user verified.
C40_StateOnceWithinTheHour ==
  [][ /\ \A p \in Procs :
           (pc[p] = "idle" /\ pc'[p] = "handleTwitterCallback_login") =>
             LET s == loc'[p].state
             IN  /\ oauthStates[s].status = "stored"
                 /\ clock - oauthStates[s].timestamp <= OAuthStateLifetime
                 /\ oauthStates'[s].status = "deleted"
                 /\ loc'[p].user = oauthStates[s].telegramId
      /\ \A u \in DOMAIN users :
           users'[u] # users[u] =>
             \E p \in Procs :
               /\ pc[p] = "linkTwitterAccount_update"
               /\ loc[p].user = u
               /\ pc'[p] # pc[p] ]_vars
====
